---------------------------- MODULE Spec2Model ----------------------------
(***************************************************************************)
(* A model of the bci bytecode interpreter: the parser that turns a token  *)
(* stream into the instruction array and the function table                *)
(* (src/src/bytecode.rs) and the virtual machine that executes it          *)
(* (src/src/vm.rs).                                                        *)
(*                                                                         *)
(* Conventions.  An Option is a sequence of length 0 (None) or 1 (Some).   *)
(* A &str / String is the sequence of its UTF-8 bytes.  The operand stack  *)
(* [i32; 1000] is kept as the sequence of its cells up to the highest cell *)
(* ever written; every cell above is still the 0 it was initialised with.  *)
(***************************************************************************)
EXTENDS Integers, Sequences, FiniteSets, TLC

(***************************************************************************)
(* Machine integers.                                                       *)
(***************************************************************************)
MaxI32 == 2147483647
MinI32 == -MaxI32 - 1

\* stack: [i32; 1000]
STACK_LEN == 1000

None == << >>
Some(x) == << x >>
IsSome(o) == Len(o) = 1

\* a + b in i32: fits, or overflows (the wrapped value is what a build
\* without overflow checks computes).
AddOverflows(a, b) ==
    \/ a > 0 /\ b > 0 /\ a > MaxI32 - b
    \/ a < 0 /\ b < 0 /\ a < MinI32 - b

WrapAdd(a, b) ==
    IF ~AddOverflows(a, b) THEN a + b
    ELSE IF a > 0 THEN (a - MaxI32 - 1) + (b - MaxI32 - 1)
    ELSE (a + MaxI32 + 1) + (b + MaxI32 + 1)

\* a - b in i32
SubOverflows(a, b) ==
    \/ a >= 0 /\ b < 0 /\ a > MaxI32 + b
    \/ a < 0 /\ b > 0 /\ a < MinI32 + b

WrapSub(a, b) ==
    IF ~SubOverflows(a, b) THEN a - b
    ELSE IF a >= 0 THEN (a - MaxI32 - 1) - (b + MaxI32 + 1)
    ELSE (a + MaxI32 + 1) - (b - MaxI32 - 1)

Abs(a) == IF a < 0 THEN -a ELSE a

\* a * b in i32 (MinI32 has no absolute value in i32: it overflows unless
\* the other factor is 0 or 1).
MulOverflows(a, b) ==
    IF a = 0 \/ b = 0 THEN FALSE
    ELSE IF a = MinI32 THEN b # 1
    ELSE IF b = MinI32 THEN a # 1
    ELSE Abs(a) > MaxI32 \div Abs(b)

\* the low and the high 16 bits of al * bl, for al, bl in 0 .. 65535
MulLow(al, bl) ==
    LET x  == al * (bl % 256)
        y  == al * (bl \div 256)
        t  == x + 256 * (y % 256)
    IN  [lo |-> t % 65536, hi |-> (y \div 256) + (t \div 65536)]

\* a * b modulo 2^32, as an i32
WrapMul(a, b) ==
    IF ~MulOverflows(a, b) THEN a * b
    ELSE LET al == a % 65536
             ah == a \div 65536
             bl == b % 65536
             bh == b \div 65536
             p  == MulLow(al, bl)
             hi == (((ah * bl) % 65536) + ((al * bh) % 65536) + p.hi) % 65536
         IN  (IF hi >= 32768 THEN hi - 65536 ELSE hi) * 65536 + p.lo

(***************************************************************************)
(* The byte view of the stack: cell c holds bytes 4c .. 4c+3, least        *)
(* significant first.                                                      *)
(***************************************************************************)
ByteOf(v, k) ==
    (v \div (IF k = 0 THEN 1 ELSE IF k = 1 THEN 256
             ELSE IF k = 2 THEN 65536 ELSE 16777216)) % 256

CellOf(b0, b1, b2, b3) ==
    b0 + 256 * b1 + 65536 * b2
       + 16777216 * (IF b3 >= 128 THEN b3 - 256 ELSE b3)

RECURSIVE Latin1String(_)
\* `b as char` pushed on a String, byte by byte: the UTF-8 encoding of the
\* char U+00b
Latin1String(bytes) ==
    IF bytes = << >> THEN << >>
    ELSE (IF Head(bytes) < 128 THEN << Head(bytes) >>
          ELSE << 192 + (Head(bytes) \div 64), 128 + (Head(bytes) % 64) >>)
         \o Latin1String(Tail(bytes))

\* lexicographic order of byte strings: -1, 0, 1
RECURSIVE StrOrd(_, _)
StrOrd(a, b) ==
    IF a = << >> /\ b = << >> THEN 0
    ELSE IF a = << >> THEN -1
    ELSE IF b = << >> THEN 1
    ELSE IF Head(a) < Head(b) THEN -1
    ELSE IF Head(a) > Head(b) THEN 1
    ELSE StrOrd(Tail(a), Tail(b))


(***************************************************************************)
(* Tokens (src/src/token.rs) and instructions (src/src/bytecode.rs).       *)
(* A value carries every field so that values of different variants can    *)
(* be compared; the fields a variant does not have hold a default.         *)
(***************************************************************************)
Token(kind, op, name, str, num) ==
    [kind |-> kind, op |-> op, name |-> name, str |-> str, num |-> num]

TInstruction(op) == Token("Instruction", op, "", << >>, 0)
TNewline == Token("Newline", "", "", << >>, 0)
TColon == Token("Colon", "", "", << >>, 0)
TStringLiteral(s) == Token("StringLiteral", "", "", s, 0)
TName(n) == Token("Name", "", n, << >>, 0)
TNumber(n) == Token("Number", "", "", << >>, n)

(***************************************************************************)
(* The lexer (src/src/lexer.rs).  A Lexer value is [program, cursor]; the  *)
(* program is the text in bytes and program[cursor + 1] is the byte the    *)
(* cursor stands on.  A call returns the lexer it leaves behind with its   *)
(* LResult: res "ok" with val Some(token) or None, or res "err" with msg.  *)
(***************************************************************************)
LexerNew(text) == [program |-> text, cursor |-> 0]

LRes(l, res, val, msg) == [l |-> l, res |-> res, val |-> val, msg |-> msg]

\* next_char: the byte under the cursor if there is one; the cursor moves
\* past it unless peek
next_char(l, peek) ==
    IF l.cursor < Len(l.program)
    THEN [l |-> IF peek THEN l ELSE [l EXCEPT !.cursor = @ + 1],
          ch |-> Some(l.program[l.cursor + 1])]
    ELSE [l |-> l, ch |-> None]

RECURSIVE trim(_)
trim(l) ==
    LET c == next_char(l, TRUE) IN
    IF c.ch = None \/ c.ch[1] \notin {9, 13, 12, 32} THEN l
    ELSE trim([l EXCEPT !.cursor = @ + 1])

is_ascii_digit(ch) == ch >= 48 /\ ch <= 57

\* str::parse::<i32> on the digits that follow an optional '-': checked
\* accumulation, downwards for a negative number
RECURSIVE ParseI32(_, _, _)
ParseI32(digits, neg, acc) ==
    IF digits = << >> THEN [ok |-> TRUE, val |-> acc, msg |-> ""]
    ELSE LET d == Head(digits) - 48 IN
         IF ~neg /\ acc > (MaxI32 - d) \div 10
         THEN [ok |-> FALSE, val |-> 0,
               msg |-> "number too large to fit in target type"]
         ELSE IF neg /\ -acc > (MaxI32 - (IF d = 0 THEN 0 ELSE d - 1)) \div 10
         THEN [ok |-> FALSE, val |-> 0,
               msg |-> "number too small to fit in target type"]
         ELSE ParseI32(Tail(digits), neg,
                       IF neg THEN acc * 10 - d ELSE acc * 10 + d)

\* The loops of read_number and read_token: bytes are consumed while they
\* belong to the token; the first that does not is given back
RECURSIVE SkipWhile(_, _)
SkipWhile(l, number) ==
    LET c == next_char(l, FALSE) IN
    IF c.ch = None THEN l
    ELSE IF \/ is_ascii_digit(c.ch[1])
            \/ ~number /\ \/ c.ch[1] >= 65 /\ c.ch[1] <= 90
                          \/ c.ch[1] >= 97 /\ c.ch[1] <= 122
                          \/ c.ch[1] = 95
    THEN SkipWhile(c.l, number)
    ELSE l

\* Called with the cursor just past the first byte of the number
read_number(l) ==
    LET start_pos == l.cursor - 1
        l1 == SkipWhile(l, TRUE)
        text == SubSeq(l.program, start_pos + 1, l1.cursor)
        number ==
            IF text = << 45 >>
            THEN [ok |-> FALSE, val |-> 0,
                  msg |-> "invalid digit found in string"]
            ELSE IF Head(text) = 45 THEN ParseI32(Tail(text), TRUE, 0)
            ELSE ParseI32(text, FALSE, 0)
    IN  IF number.ok THEN LRes(l1, "ok", Some(TNumber(number.val)), "")
        ELSE LRes(l1, "err", None, number.msg)

\* The loop of read_str_literal: bytes are consumed up to and including
\* the first newline (not finished) or quote (finished)
RECURSIVE ScanLiteral(_)
ScanLiteral(l) ==
    LET c == next_char(l, FALSE) IN
    IF c.ch = None THEN [l |-> l, finished |-> FALSE]
    ELSE IF c.ch[1] = 10 THEN [l |-> c.l, finished |-> FALSE]
    ELSE IF c.ch[1] = 39 THEN [l |-> c.l, finished |-> TRUE]
    ELSE ScanLiteral(c.l)

\* Called with the cursor just past the opening quote: the byte there is
\* consumed whatever it is, and the literal starts with it
read_str_literal(l) ==
    LET l1 == next_char(l, FALSE).l
        start_pos == l1.cursor - 1
        scan == ScanLiteral(l1)
    IN  IF ~scan.finished
        THEN LRes(scan.l, "err", None,
                  "String literal is not finished properly.")
        ELSE LRes(scan.l, "ok",
                  Some(TStringLiteral(SubSeq(l.program, start_pos + 1,
                                             scan.l.cursor - 1))), "")

\* Token::new: the 21 reserved words, spelled in bytes, give the operation
\* whose parse function builds the instruction of that name; any other text
\* is a Name
TokenNew(token_str) ==
    IF token_str = << 76, 79, 65, 68, 95, 86, 65, 76 >>    \* LOAD_VAL
    THEN TInstruction("LoadVal")
    ELSE
    IF token_str = << 87, 82, 73, 84, 69, 95, 86, 65, 82 >>    \* WRITE_VAR
    THEN TInstruction("WriteVar")
    ELSE
    IF token_str = << 82, 69, 65, 68, 95, 86, 65, 82 >>    \* READ_VAR
    THEN TInstruction("ReadVar")
    ELSE
    IF token_str = << 82, 69, 84, 85, 82, 78, 95, 86, 65, 76, 85, 69 >>    \* RETURN_VALUE
    THEN TInstruction("RetValue")
    ELSE
    IF token_str = << 77, 85, 76 >>    \* MUL
    THEN TInstruction("Mul")
    ELSE
    IF token_str = << 65, 68, 68 >>    \* ADD
    THEN TInstruction("Add")
    ELSE
    IF token_str = << 74, 77, 80 >>    \* JMP
    THEN TInstruction("Jmp")
    ELSE
    IF token_str = << 67, 65, 76, 76 >>    \* CALL
    THEN TInstruction("Call")
    ELSE
    IF token_str = << 72, 65, 76, 84 >>    \* HALT
    THEN TInstruction("Halt")
    ELSE
    IF token_str = << 67, 77, 80 >>    \* CMP
    THEN TInstruction("Cmp")
    ELSE
    IF token_str = << 67, 77, 80, 95, 83, 84, 82 >>    \* CMP_STR
    THEN TInstruction("CmpStr")
    ELSE
    IF token_str = << 74, 69 >>    \* JE
    THEN TInstruction("Je")
    ELSE
    IF token_str = << 74, 78, 69 >>    \* JNE
    THEN TInstruction("Jne")
    ELSE
    IF token_str = << 74, 71 >>    \* JG
    THEN TInstruction("Jg")
    ELSE
    IF token_str = << 74, 76 >>    \* JL
    THEN TInstruction("Jl")
    ELSE
    IF token_str = << 68, 69, 67, 82 >>    \* DECR
    THEN TInstruction("Decr")
    ELSE
    IF token_str = << 73, 78, 67, 82 >>    \* INCR
    THEN TInstruction("Incr")
    ELSE
    IF token_str = << 82, 69, 84, 85, 82, 78 >>    \* RETURN
    THEN TInstruction("Ret")
    ELSE
    IF token_str = << 80, 85, 83, 72, 95, 83, 84, 82 >>    \* PUSH_STR
    THEN TInstruction("PushStr")
    ELSE
    IF token_str = << 80, 79, 80, 95, 83, 84, 82 >>    \* POP_STR
    THEN TInstruction("PopStr")
    ELSE
    IF token_str = << 78, 79, 80 >>    \* NOP
    THEN TInstruction("Nop")
    ELSE TName(token_str)

\* Called with the cursor just past the first byte of the word
read_token(l) ==
    LET start_pos == l.cursor - 1
        l1 == SkipWhile(l, FALSE)
    IN  LRes(l1, "ok",
             Some(TokenNew(SubSeq(l.program, start_pos + 1, l1.cursor))), "")

next_token(l) ==
    LET c == next_char(trim(l), FALSE) IN
    IF c.ch = None THEN LRes(c.l, "ok", None, "")
    ELSE IF c.ch[1] = 39 THEN read_str_literal(c.l)
    ELSE IF c.ch[1] = 58 THEN LRes(c.l, "ok", Some(TColon), "")
    ELSE IF c.ch[1] = 10 THEN LRes(c.l, "ok", Some(TNewline), "")
    ELSE IF is_ascii_digit(c.ch[1]) \/ c.ch[1] = 45 THEN read_number(c.l)
    ELSE read_token(c.l)


Instruction(op, name, str, num) ==
    [op |-> op, name |-> name, str |-> str, num |-> num]

Call(fn_name) == Instruction("Call", fn_name, << >>, 0)
Halt(exit_code) == Instruction("Halt", "", << >>, exit_code)
PushStr(s) == Instruction("PushStr", "", s, 0)
LoadVal(n) == Instruction("LoadVal", "", << >>, n)
WriteVar(v) == Instruction("WriteVar", "", v, 0)
ReadVar(v) == Instruction("ReadVar", "", v, 0)
Jmp(n) == Instruction("Jmp", "", << >>, n)
Je(n) == Instruction("Je", "", << >>, n)
Jne(n) == Instruction("Jne", "", << >>, n)
Jg(n) == Instruction("Jg", "", << >>, n)
Jl(n) == Instruction("Jl", "", << >>, n)
Plain(op) == Instruction(op, "", << >>, 0)
Nop == Plain("Nop")

ENTRY_POINT == "MAIN"

\* The operand token each opcode's parse function reads (impl_parse_fn!)
NumberOps == {"LoadVal", "Halt", "Jmp", "Je", "Jne", "Jg", "Jl"}
StringOps == {"WriteVar", "ReadVar", "PushStr"}
PlainOps == {"Add", "Mul", "Decr", "Incr", "RetValue", "Ret", "Nop", "Cmp",
             "CmpStr", "PopStr"}

\* Bytecode::new: the two prologue instructions and an empty function table
BytecodeNew ==
    [instructions |-> << Call(ENTRY_POINT), Halt(0) >>, fn_table |-> << >>]

\* Err(anyhow!(msg, arg)): arg is the value the message formats, if any
ParseErrOf(msg, arg) ==
    [ok |-> FALSE, err |-> msg, arg |-> arg, instructions |-> << >>,
     fn_table |-> << >>]

\* Variant of ParseFn: whatever token follows is taken for the operand
ParseFn_any_operand(op, toks, pos) ==
    IF op \in PlainOps
    THEN [ok |-> TRUE, ins |-> Plain(op), next |-> pos]
    ELSE IF pos <= Len(toks) /\ toks[pos] # TNewline
    THEN [ok |-> TRUE,
          ins |-> Instruction(op, toks[pos].name, toks[pos].str,
                              toks[pos].num),
          next |-> pos + 1]
    ELSE [ok |-> FALSE, ins |-> Nop, next |-> pos]

\* The parse function of opcode op, with the lexer at token pos: the
\* instruction and the position after the operand, or an error.
ParseFn(op, toks, pos) ==
    IF op \in PlainOps
    THEN [ok |-> TRUE, ins |-> Plain(op), next |-> pos]
    ELSE LET want == IF op \in NumberOps THEN "Number"
                     ELSE IF op \in StringOps THEN "StringLiteral"
                     ELSE "Name"           \* Call
         IN  IF pos <= Len(toks) /\ toks[pos].kind = want
             THEN [ok |-> TRUE,
                   ins |-> Instruction(op, toks[pos].name, toks[pos].str,
                                       toks[pos].num),
                   next |-> pos + 1]
             ELSE [ok |-> FALSE, ins |-> Nop, next |-> pos]

\* Variant of Redefined: a later definition replaces the earlier one
Redefined_never(bc, name) == FALSE

\* "Redifinition of a function": the label is in the function table
Redefined(bc, name) == name \in DOMAIN bc.fn_table

\* Variant of ParseEnd: whatever the loop built is the bytecode
ParseEnd_unchecked(bc) ==
    [ok |-> TRUE, err |-> "", arg |-> None,
     instructions |-> bc.instructions, fn_table |-> bc.fn_table]

\* Parser::parse after its loop: without MAIN in the function table there
\* is no bytecode
ParseEnd(bc) ==
    IF ENTRY_POINT \notin DOMAIN bc.fn_table
    THEN ParseErrOf("Could not find the entry point(MAIN).", None)
    ELSE [ok |-> TRUE, err |-> "", arg |-> None,
          instructions |-> bc.instructions, fn_table |-> bc.fn_table]

RECURSIVE ParseLoop(_, _, _, _)
RECURSIVE ParseLineEnd(_, _, _, _)

\* Parser::parse, the body of the while loop from the token at pos on.
\* bc is the bytecode built so far.
ParseLoop(toks, pos, bc, line_ctr) ==
    IF pos > Len(toks)
    THEN ParseEnd(bc)
    ELSE LET token == toks[pos] IN
         IF token.kind = "Instruction"
         THEN LET r == ParseFn(token.op, toks, pos + 1) IN
              IF ~r.ok THEN ParseErrOf("Expected operand", None)
              ELSE ParseLineEnd(toks, r.next,
                       [bc EXCEPT !.instructions = Append(@, r.ins)],
                       line_ctr)
         ELSE IF token.kind = "Name"
         THEN IF pos + 1 > Len(toks) \/ toks[pos + 1] # TColon
              THEN ParseErrOf("':' should come after a label", None)
              ELSE IF Redefined(bc, token.name)
              THEN ParseErrOf("Function {} is already defined.",
                              Some(token.name))
              ELSE ParseLineEnd(toks, pos + 2,
                       [instructions |-> Append(bc.instructions, Nop),
                        fn_table |->
                            [n \in DOMAIN bc.fn_table \cup {token.name} |->
                                IF n = token.name THEN line_ctr + 2
                                ELSE bc.fn_table[n]]],
                       line_ctr)
         ELSE IF token.kind = "Newline"
         THEN ParseLoop(toks, pos + 1,
                  [bc EXCEPT !.instructions = Append(@, Nop)], line_ctr + 1)
         ELSE ParseErrOf("Expected instruction or label", None)

\* Variant of ParseLineEnd: the line of a statement is not counted
ParseLineEnd_keeps_count(toks, pos, bc, line_ctr) ==
    IF pos > Len(toks) THEN ParseLoop(toks, pos, bc, line_ctr)
    ELSE IF toks[pos] = TNewline
    THEN ParseLoop(toks, pos + 1, bc, line_ctr)
    ELSE ParseErrOf("Expected newline", None)

\* "This instruction is finished so we expect a newline"
ParseLineEnd(toks, pos, bc, line_ctr) ==
    IF pos > Len(toks) THEN ParseLoop(toks, pos, bc, line_ctr + 1)
    ELSE IF toks[pos] = TNewline
    THEN ParseLoop(toks, pos + 1, bc, line_ctr + 1)
    ELSE ParseErrOf("Expected newline", None)

Parse(toks) == ParseLoop(toks, 1, BytecodeNew, 0)

(***************************************************************************)
(* The virtual machine (src/src/vm.rs).                                    *)
(***************************************************************************)
VARIABLES
    program,          \* the token stream the machine was loaded from
    instructions,     \* bytecode.instructions (index i is instructions[i+1])
    fn_table,         \* bytecode.fn_table: function name -> ptr
    overflow_checks,  \* the build, once an overflow has shown it: "on" if
                      \* integer overflow panics, "off" if it wraps
    ip, sp, fp, halt, \* BciVm fields
    stack,            \* BciVm.stack, the cells up to the highest one written
    frame_stack,      \* BciVm.frame_stack
    out,              \* the lines written to stdout
    status,           \* where the caller of load / run stands
    err,              \* the message of the error load / run returned
    err_arg,          \* the name that message formats (an Option)
    lexer,            \* a Lexer at work on a program text
    lexed,            \* what its last next_token returned, with the cursor
                      \* the call started from
    runs,             \* how many times run has been called
    popped,           \* the String the last ins_pop_str returned
    oob,              \* TRUE once a byte was written outside the stack
    hist              \* the most recent steps, newest first

vars == << program, instructions, fn_table, overflow_checks, ip, sp, fp,
           halt, stack, frame_stack, out, status, err, err_arg, runs,
           popped, oob, hist,
          lexer, lexed >>

\* The names BciVm::load registers in builtin_fns
BuiltinFns == {"TRAVERSE_DIR", "TRAVERSE_DIR_NEXT", "READ_FILE",
               "READ_FILE_NEXT", "PRINT", "PRINT_STR"}

\* StackFrame::new
StackFrameNew(ret_addr) ==
    [ret_addr |-> ret_addr, ret_value |-> None, local_vars |-> << >>,
     dynamic_objects |-> << >>, dyn_obj_index |-> 0]

\* The mutable fields of BciVm as one value, for the handlers to work on
\* together with the build (checks) and whether the handler met an overflow.
VM(checks) ==
    [ip |-> ip, sp |-> sp, fp |-> fp, halt |-> halt, stack |-> stack,
     frame_stack |-> frame_stack, out |-> out, checks |-> checks,
     overflowed |-> FALSE]

\* What a handler returns: the machine as it left it, how it ended
\* ("ok", "err": Err(msg), "panic": the thread panicked, "ub": it wrote
\* outside the stack array), and the value of an Ok.
Ret4(m, res, msg, val) == [m |-> m, res |-> res, msg |-> msg, val |-> val]
Ok(m) == Ret4(m, "ok", "", 0)
OkVal(m, v) == Ret4(m, "ok", "", v)
Err(m, msg) == Ret4(m, "err", msg, None)
\* Err(anyhow!(msg, arg))
ErrOf(m, msg, arg) == Ret4(m, "err", msg, Some(arg))
Panic(m, msg) == Ret4(m, "panic", msg, 0)

\* self.stack[i]
Cell(st, i) == IF i < Len(st) THEN st[i + 1] ELSE 0

\* self.stack[i] = v, for 0 <= i < STACK_LEN
SetCell(st, i, v) ==
    IF i < Len(st) THEN [st EXCEPT ![i + 1] = v]
    ELSE st \o [c \in 1..(i - Len(st)) |-> 0] \o << v >>

\* The `?` of Rust: go on with F on an Ok, hand an error or a panic on
Then(r, F(_)) == IF r.res # "ok" THEN r ELSE F(r)

push_stack(m, data) ==
    IF m.sp + 1 < 0 \/ m.sp + 1 >= STACK_LEN
    THEN Panic([m EXCEPT !.sp = @ + 1], "index out of bounds")
    ELSE Ok([m EXCEPT !.sp = @ + 1,
                      !.stack = SetCell(@, m.sp + 1, data)])

\* Variant of pop_stack: the empty stack gives a 0
pop_stack_unchecked(m) ==
    IF m.sp < 0 THEN OkVal([m EXCEPT !.sp = @ - 1], 0)
    ELSE IF m.sp >= STACK_LEN
    THEN Panic([m EXCEPT !.sp = @ - 1], "index out of bounds")
    ELSE OkVal([m EXCEPT !.sp = @ - 1], Cell(m.stack, m.sp))

pop_stack(m) ==
    IF m.sp < 0 THEN Err(m, "Fatal: stack is empty.")
    ELSE IF m.sp >= STACK_LEN
    THEN Panic([m EXCEPT !.sp = @ - 1], "index out of bounds")
    ELSE OkVal([m EXCEPT !.sp = @ - 1], Cell(m.stack, m.sp))

\* copy_nonoverlapping(src, dest, s.len()) with dest the first byte of
\* cell c0; the bytes of the last cell that s does not reach keep their
\* value.  Only for a copy that stays inside the array.
CopyBytes(st, c0, s) ==
    LET ncells == (Len(s) + 3) \div 4
        byte(c, k) == IF 4 * (c - c0) + k < Len(s)
                      THEN s[4 * (c - c0) + k + 1]
                      ELSE ByteOf(Cell(st, c), k)
        below == [j \in 1..c0 |-> Cell(st, j - 1)]
        cells == [j \in 1..ncells |->
                     CellOf(byte(c0 + j - 1, 0), byte(c0 + j - 1, 1),
                            byte(c0 + j - 1, 2), byte(c0 + j - 1, 3))]
    IN  IF Len(st) <= c0 + ncells THEN below \o cells
        ELSE SubSeq(st, 1, c0) \o cells \o SubSeq(st, c0 + ncells + 1, Len(st))

ins_push_str(m, s) ==
    IF Len(s) >= m.sp + 1 + STACK_LEN
    THEN Err([m EXCEPT !.sp = @ + 1], "fatal: out of memory")
    ELSE IF 4 * (m.sp + 1) + Len(s) > 4 * STACK_LEN
    THEN Ret4([m EXCEPT !.sp = @ + 1], "ub",
              "copy past the end of the stack", 0)
    ELSE push_stack([m EXCEPT !.stack = CopyBytes(@, m.sp + 1, s),
                              !.sp = @ + 1 + Len(s) \div 4],
                    Len(s))

\* The bytes ins_pop_str reads: n bytes from the first byte of cell c0
ReadBytes(st, c0, n) ==
    [i \in 1..n |-> ByteOf(Cell(st, c0 + (i - 1) \div 4), (i - 1) % 4)]

\* Variant of PopStrBody: a negative length is read as the empty string
PopStrBody_lenient(p) ==
    IF p.val <= 0 THEN OkVal(p.m, << >>)
    ELSE IF p.m.sp - (p.val \div 4 + 1) + 1 < 0
    THEN Err(p.m, "fatal: not enough stack.")
    ELSE OkVal([p.m EXCEPT !.sp = @ - (p.val \div 4 + 1)],
               Latin1String(ReadBytes(p.m.stack,
                                      p.m.sp - (p.val \div 4 + 1) + 1,
                                      p.val)))

\* ins_pop_str once the length is popped: p.val is str_len
PopStrBody(p) ==
    IF p.val < 0 THEN Err(p.m, "fatal: negative strlen.")
    ELSE IF p.val = 0 THEN OkVal(p.m, << >>)
    ELSE IF p.m.sp - (p.val \div 4 + 1) + 1 < 0
    THEN Err(p.m, "fatal: not enough stack.")
    ELSE OkVal([p.m EXCEPT !.sp = @ - (p.val \div 4 + 1)],
               Latin1String(ReadBytes(p.m.stack,
                                      p.m.sp - (p.val \div 4 + 1) + 1,
                                      p.val)))

ins_pop_str(m) == Then(pop_stack(m), PopStrBody)

\* lhs + rhs, val += 1, ... : the i32 result r, which a build with
\* overflow checks replaces by a panic when the operation overflowed
Arith(m, overflowed, r) ==
    IF overflowed /\ m.checks = "on"
    THEN Panic([m EXCEPT !.overflowed = TRUE],
               "attempt to compute with overflow")
    ELSE push_stack([m EXCEPT !.overflowed = @ \/ overflowed], r)

ins_decr(m) ==
    Then(pop_stack(m),
         LAMBDA p : Arith(p.m, SubOverflows(p.val, 1), WrapSub(p.val, 1)))

ins_incr(m) ==
    Then(pop_stack(m),
         LAMBDA p : Arith(p.m, AddOverflows(p.val, 1), WrapAdd(p.val, 1)))

\* Variant of CmpResult: 1 when the value pushed last is the greater
CmpResult_reversed(lhs, rhs) ==
    IF lhs = rhs THEN 0 ELSE IF rhs > lhs THEN 1 ELSE -1

\* if lhs == rhs {0} else if lhs > rhs {1} else {-1}, on i32
CmpResult(lhs, rhs) == IF lhs = rhs THEN 0 ELSE IF lhs > rhs THEN 1 ELSE -1

\* Variant of ins_cmp: the result is pushed without popping the operands
ins_cmp_keeps_operands(m) ==
    IF m.sp < 1 THEN Err(m, "Fatal: stack is empty.")
    ELSE push_stack(m, IF Cell(m.stack, m.sp - 1) = Cell(m.stack, m.sp) THEN 0
                       ELSE IF Cell(m.stack, m.sp - 1) > Cell(m.stack, m.sp)
                       THEN 1 ELSE -1)

ins_cmp(m) ==
    Then(pop_stack(m), LAMBDA rhs :
    Then(pop_stack(rhs.m), LAMBDA lhs :
    push_stack(lhs.m, CmpResult(lhs.val, rhs.val))))

ins_cmp_str(m) ==
    Then(ins_pop_str(m), LAMBDA rhs :
    Then(ins_pop_str(rhs.m), LAMBDA lhs :
    push_stack(lhs.m, StrOrd(lhs.val, rhs.val))))

\* Variant of ins_jmp: the operand is added, as lib.rs words it
ins_jmp_forward(m, count) ==
    IF count < -m.ip \/ AddOverflows(m.ip, count) THEN Err(m, "Invalid jump.")
    ELSE IF m.ip + count >= Len(instructions) THEN Err(m, "Invalid jump.")
    ELSE Ok([m EXCEPT !.ip = m.ip + count])

ins_jmp(m, count) ==
    IF count > m.ip THEN Err(m, "Invalid jump.")
    ELSE IF SubOverflows(m.ip, count)
    THEN \* (self.ip as i32) - count overflows: a panic, or a wrapped
         \* negative value whose cast to usize is beyond every index
         IF m.checks = "on"
         THEN Panic([m EXCEPT !.overflowed = TRUE],
                    "attempt to subtract with overflow")
         ELSE Err([m EXCEPT !.overflowed = TRUE], "Invalid jump.")
    ELSE IF m.ip - count >= Len(instructions) THEN Err(m, "Invalid jump.")
    ELSE Ok([m EXCEPT !.ip = m.ip - count])

\* Variant of JumpTaken: Jg and Jl look at the sign of the popped value
JumpTaken_by_sign(op, v) ==
    IF op = "Je" THEN v = 0
    ELSE IF op = "Jne" THEN v # 0
    ELSE IF op = "Jg" THEN v > 0
    ELSE v < 0

\* ins_je, ins_jne, ins_jg, ins_jl: pop the comparison result and jump if
\* it is the one the instruction waits for
JumpTaken(op, v) ==
    IF op = "Je" THEN v = 0
    ELSE IF op = "Jne" THEN v # 0
    ELSE IF op = "Jg" THEN v = 1
    ELSE v = -1

ins_jcond(m, op, count) ==
    Then(pop_stack(m), LAMBDA p :
    IF ~JumpTaken(op, p.val) THEN Ok(p.m) ELSE ins_jmp(p.m, count))

\* map.insert(key, value) on a HashMap kept as a function
Insert(map, key, value) ==
    [k \in DOMAIN map \cup {key} |-> IF k = key THEN value ELSE map[k]]

\* self.frame_stack[self.fp as usize] exists
HasFrameAtFp(m) == m.fp >= 0 /\ m.fp < Len(m.frame_stack)

\* Variant of ins_write_var: a name that is bound keeps its value
ins_write_var_keeps_old(m, var_name) ==
    Then(pop_stack(m), LAMBDA p :
    IF ~HasFrameAtFp(p.m) THEN Panic(p.m, "index out of bounds")
    ELSE IF var_name \in DOMAIN p.m.frame_stack[p.m.fp + 1].local_vars
    THEN Ok(p.m)
    ELSE Ok([p.m EXCEPT !.frame_stack[p.m.fp + 1].local_vars =
                            Insert(@, var_name, p.val)]))

ins_write_var(m, var_name) ==
    Then(pop_stack(m), LAMBDA p :
    IF ~HasFrameAtFp(p.m) THEN Panic(p.m, "index out of bounds")
    ELSE Ok([p.m EXCEPT !.frame_stack[p.m.fp + 1].local_vars =
                            Insert(@, var_name, p.val)]))

ins_read_var(m, var_name) ==
    IF ~HasFrameAtFp(m) THEN Panic(m, "index out of bounds")
    ELSE IF var_name \in DOMAIN m.frame_stack[m.fp + 1].local_vars
    THEN push_stack(m, m.frame_stack[m.fp + 1].local_vars[var_name])
    ELSE ErrOf(m, "Variable '{}' does not exist.", var_name)

\* Vec::pop on the frame stack: the frames that stay
PopFrame(fs) == SubSeq(fs, 1, Len(fs) - 1)
\* and the frame that goes
LastFrame(fs) == fs[Len(fs)]

ins_ret_value(m) ==
    IF m.frame_stack = << >> THEN Err(m, "Fatal: unexpected return")
    ELSE Then(pop_stack([m EXCEPT !.frame_stack = PopFrame(@)]), LAMBDA p :
         Then(push_stack([p.m EXCEPT !.ip = LastFrame(m.frame_stack).ret_addr],
                         p.val), LAMBDA q :
         Ok([q.m EXCEPT !.fp = @ - 1])))

\* Variant of ins_ret: the objects of the frame that goes are handed to the
\* frame below
ins_ret_hands_down(m) ==
    IF m.frame_stack = << >> THEN Err(m, "Fatal: unexpected return")
    ELSE IF Len(m.frame_stack) = 1
    THEN Ok([m EXCEPT !.frame_stack = PopFrame(@),
                      !.ip = LastFrame(m.frame_stack).ret_addr,
                      !.fp = @ - 1])
    ELSE Ok([m EXCEPT !.frame_stack =
                          [PopFrame(@) EXCEPT ![Len(@) - 1].dynamic_objects =
                              LastFrame(m.frame_stack).dynamic_objects],
                      !.ip = LastFrame(m.frame_stack).ret_addr,
                      !.fp = @ - 1])

\* Variant of ins_ret: the frame goes, fp is not taken down
ins_ret_keeps_fp(m) ==
    IF m.frame_stack = << >> THEN Err(m, "Fatal: unexpected return")
    ELSE Ok([m EXCEPT !.frame_stack = PopFrame(@),
                      !.ip = LastFrame(m.frame_stack).ret_addr])

\* Variant of ins_ret: the frame goes, ip is not set to its ret_addr
ins_ret_keeps_ip(m) ==
    IF m.frame_stack = << >> THEN Err(m, "Fatal: unexpected return")
    ELSE Ok([m EXCEPT !.frame_stack = PopFrame(@), !.fp = @ - 1])

ins_ret(m) ==
    IF m.frame_stack = << >> THEN Err(m, "Fatal: unexpected return")
    ELSE Ok([m EXCEPT !.frame_stack = PopFrame(@),
                      !.ip = LastFrame(m.frame_stack).ret_addr,
                      !.fp = @ - 1])

ins_load_val(m, number) == push_stack(m, number)

ins_add(m) ==
    IF m.sp < 1 THEN Err(m, "Fatal: stack is smaller than 2")
    ELSE Then(pop_stack(m), LAMBDA lhs :
         Then(pop_stack(lhs.m), LAMBDA rhs :
         Arith(rhs.m, AddOverflows(lhs.val, rhs.val),
               WrapAdd(lhs.val, rhs.val))))

\* Variant of ins_mul: the body of ins_add under the message of ins_mul
ins_mul_adds(m) ==
    IF m.sp < 1 THEN Err(m, "Fatal: stack size is smaller than 2")
    ELSE Then(pop_stack(m), LAMBDA lhs :
         Then(pop_stack(lhs.m), LAMBDA rhs :
         Arith(rhs.m, AddOverflows(lhs.val, rhs.val),
               WrapAdd(lhs.val, rhs.val))))

ins_mul(m) ==
    IF m.sp < 1 THEN Err(m, "Fatal: stack size is smaller than 2")
    ELSE Then(pop_stack(m), LAMBDA lhs :
         Then(pop_stack(lhs.m), LAMBDA rhs :
         Arith(rhs.m, MulOverflows(lhs.val, rhs.val),
               WrapMul(lhs.val, rhs.val))))

(***************************************************************************)
(* Built-in functions.  The file system they see: one file and one         *)
(* directory; every other path fails to open.                              *)
(***************************************************************************)
FilePath == << 102 >>                         \* "f"
FileLines == << << 97, 98 >>, << >> >>          \* "ab", ""
DirPath == << 100 >>                          \* "d"

\* Box<dyn Any>: a line iterator or a directory iterator, with what it
\* has still to yield
LinesObj(lines) == [kind |-> "Lines", lines |-> lines, entries |-> << >>]

\* self.frame_stack.last_mut().unwrap()
TopFrame(m) == m.frame_stack[Len(m.frame_stack)]

\* Variant of add_dynamic_object: the counter of the frame stays
add_dynamic_object_same_id(m, obj) ==
    IF m.frame_stack = << >> THEN Panic(m, "unwrap on None")
    ELSE push_stack(
             [m EXCEPT !.frame_stack[Len(m.frame_stack)].dynamic_objects =
                 Insert(@, TopFrame(m).dyn_obj_index, obj)],
             TopFrame(m).dyn_obj_index)

add_dynamic_object(m, obj) ==
    IF m.frame_stack = << >> THEN Panic(m, "unwrap on None")
    ELSE push_stack(
             [m EXCEPT !.frame_stack[Len(m.frame_stack)] =
                 [@ EXCEPT !.dynamic_objects = Insert(@, TopFrame(m).dyn_obj_index, obj),
                           !.dyn_obj_index = @ + 1]],
             TopFrame(m).dyn_obj_index)

\* The id popped, when the top frame holds an object under it
get_dynamic_object(m) ==
    Then(pop_stack(m), LAMBDA p :
    IF p.m.frame_stack = << >> THEN Panic(p.m, "unwrap on None")
    ELSE IF p.val \in DOMAIN TopFrame(p.m).dynamic_objects
    THEN OkVal(p.m, p.val)
    ELSE Err(p.m, "fatal: cannot find the dynamic object"))

RECURSIVE DecimalNat(_)
\* The digits of n >= 0, as Display for i32 writes them
DecimalNat(n) ==
    IF n < 10 THEN << 48 + n >>
    ELSE DecimalNat(n \div 10) \o << 48 + (n % 10) >>

\* Display for i32: a minus sign and the digits of the magnitude (taken
\* digit by digit: the least i32 has no negation in i32)
Decimal(n) ==
    IF n >= 0 THEN DecimalNat(n)
    ELSE LET last == (10 - (n % 10)) % 10
             rest == -((n + last) \div 10)
         IN  << 45 >> \o (IF rest = 0 THEN << >> ELSE DecimalNat(rest))
                     \o << 48 + last >>

\* println!(">>>>> {}", data): one line of stdout, without its newline
built_in_print(m) ==
    Then(pop_stack(m), LAMBDA p :
    Ok([p.m EXCEPT !.out = Append(@, << 62, 62, 62, 62, 62, 32 >>
                                        \o Decimal(p.val))]))

built_in_print_str(m) ==
    Then(ins_pop_str(m), LAMBDA p :
    Ok([p.m EXCEPT !.out = Append(@, << 62, 62, 62, 62, 62, 32 >> \o p.val)]))

\* Variant of built_in_read_file: the path is not pushed back
built_in_read_file_drops_path(m) ==
    Then(ins_pop_str(m), LAMBDA file_name :
    IF file_name.val \notin {FilePath, << 195, 131, 194, 169 >>}
    THEN Err(file_name.m, "No such file or directory")
    ELSE add_dynamic_object(file_name.m, LinesObj(FileLines)))

\* File::open finds the file "f" and a file of the name that ins_pop_str
\* makes of the literal with the bytes C3 A9; both hold the same lines
built_in_read_file(m) ==
    Then(ins_pop_str(m), LAMBDA file_name :
    IF file_name.val \notin {FilePath, << 195, 131, 194, 169 >>}
    THEN Err(file_name.m, "No such file or directory")
    ELSE Then(ins_push_str(file_name.m, file_name.val), LAMBDA q :
         add_dynamic_object(q.m, LinesObj(FileLines))))

\* The object the top frame holds under id
Object(m, id) == TopFrame(m).dynamic_objects[id]

\* Variant of Advance: the iterator stays where it is
Advance_stays(m, id) == m

\* iter.next(): the top frame with the iterator under id one item further
Advance(m, id) ==
    [m EXCEPT !.frame_stack[Len(m.frame_stack)].dynamic_objects[id] =
        [@ EXCEPT !.lines = IF @ = << >> THEN @ ELSE Tail(@),
                  !.entries = IF @ = << >> THEN @ ELSE Tail(@)]]

built_in_read_file_next(m) ==
    Then(get_dynamic_object(m), LAMBDA g :
    IF Object(g.m, g.val).kind # "Lines"
    THEN Err(g.m, "fatal: invalid dynamic object")
    ELSE IF Object(g.m, g.val).lines = << >> THEN push_stack(g.m, 0)
    ELSE Then(ins_push_str(Advance(g.m, g.val),
                           Head(Object(g.m, g.val).lines)), LAMBDA q :
         push_stack(q.m, 1)))

\* The pushes of built_in_traverse_dir_next for one directory entry
PushEntry(m, entry) ==
    Then(ins_push_str(m, entry.path), LAMBDA a :
    Then(IF IsSome(entry.ext) THEN ins_push_str(a.m, entry.ext[1])
         ELSE push_stack(a.m, 0), LAMBDA b :
    Then(push_stack(b.m, IF entry.is_dir THEN 1 ELSE 0), LAMBDA c :
    push_stack(c.m, 1))))

built_in_traverse_dir_next(m) ==
    Then(get_dynamic_object(m), LAMBDA g :
    IF Object(g.m, g.val).kind # "ReadDir"
    THEN Err(g.m, "fatal: invalid dynamic object")
    ELSE IF Object(g.m, g.val).entries = << >> THEN push_stack(g.m, 0)
    ELSE PushEntry(Advance(g.m, g.val), Head(Object(g.m, g.val).entries)))

built_in_traverse_dir(m) ==
    Then(ins_pop_str(m), LAMBDA dir_name :
    IF dir_name.val # DirPath
    THEN Err(dir_name.m, "No such file or directory")
    ELSE add_dynamic_object(dir_name.m,
             \* "d/a.b", a file with extension "b"; "d/s", a directory
             \* without one
             [kind |-> "ReadDir", lines |-> << >>,
              entries |->
                  << [path |-> << 100, 47, 97, 46, 98 >>,
                      ext |-> Some(<< 98 >>), is_dir |-> FALSE],
                     [path |-> << 100, 47, 115 >>, ext |-> None,
                      is_dir |-> TRUE] >>]))

\* Variant of ins_call: a name that resolves to nothing is entered at
\* index 0
ins_call_unresolved_enters(m, fn_name) ==
    IF fn_name \in BuiltinFns
    THEN IF fn_name = "PRINT" THEN built_in_print(m)
         ELSE IF fn_name = "PRINT_STR" THEN built_in_print_str(m)
         ELSE IF fn_name = "READ_FILE" THEN built_in_read_file(m)
         ELSE IF fn_name = "READ_FILE_NEXT" THEN built_in_read_file_next(m)
         ELSE IF fn_name = "TRAVERSE_DIR" THEN built_in_traverse_dir(m)
         ELSE built_in_traverse_dir_next(m)
    ELSE Ok([m EXCEPT !.frame_stack = Append(@, StackFrameNew(m.ip + 1)),
                      !.fp = @ + 1,
                      !.ip = IF fn_name \in DOMAIN fn_table
                             THEN fn_table[fn_name] ELSE 0])

\* Variant of ins_call: the function table is looked up before the
\* built-ins
ins_call_user_first(m, fn_name) ==
    IF fn_name \in DOMAIN fn_table
    THEN Ok([m EXCEPT !.frame_stack = Append(@, StackFrameNew(m.ip + 1)),
                      !.fp = @ + 1,
                      !.ip = fn_table[fn_name]])
    ELSE IF fn_name \notin BuiltinFns
    THEN ErrOf(m, "Function '{}' does not exist.", fn_name)
    ELSE IF fn_name = "PRINT" THEN built_in_print(m)
    ELSE IF fn_name = "PRINT_STR" THEN built_in_print_str(m)
    ELSE IF fn_name = "READ_FILE" THEN built_in_read_file(m)
    ELSE IF fn_name = "READ_FILE_NEXT" THEN built_in_read_file_next(m)
    ELSE IF fn_name = "TRAVERSE_DIR" THEN built_in_traverse_dir(m)
    ELSE built_in_traverse_dir_next(m)

\* Variant of ins_call: the frame of a user function starts with the
\* caller's variables
ins_call_inherits(m, fn_name) ==
    IF fn_name \in BuiltinFns
    THEN IF fn_name = "PRINT" THEN built_in_print(m)
         ELSE IF fn_name = "PRINT_STR" THEN built_in_print_str(m)
         ELSE IF fn_name = "READ_FILE" THEN built_in_read_file(m)
         ELSE IF fn_name = "READ_FILE_NEXT" THEN built_in_read_file_next(m)
         ELSE IF fn_name = "TRAVERSE_DIR" THEN built_in_traverse_dir(m)
         ELSE built_in_traverse_dir_next(m)
    ELSE IF fn_name \notin DOMAIN fn_table
    THEN ErrOf(m, "Function '{}' does not exist.", fn_name)
    ELSE Ok([m EXCEPT !.frame_stack =
                          Append(@, [StackFrameNew(m.ip + 1) EXCEPT
                                        !.local_vars =
                                            IF m.frame_stack = << >> THEN @
                                            ELSE TopFrame(m).local_vars]),
                      !.fp = @ + 1,
                      !.ip = fn_table[fn_name]])

ins_call(m, fn_name) ==
    IF fn_name \in BuiltinFns
    THEN IF fn_name = "PRINT" THEN built_in_print(m)
         ELSE IF fn_name = "PRINT_STR" THEN built_in_print_str(m)
         ELSE IF fn_name = "READ_FILE" THEN built_in_read_file(m)
         ELSE IF fn_name = "READ_FILE_NEXT" THEN built_in_read_file_next(m)
         ELSE IF fn_name = "TRAVERSE_DIR" THEN built_in_traverse_dir(m)
         ELSE built_in_traverse_dir_next(m)
    ELSE IF fn_name \notin DOMAIN fn_table
    THEN ErrOf(m, "Function '{}' does not exist.", fn_name)
    ELSE Ok([m EXCEPT !.frame_stack = Append(@, StackFrameNew(m.ip + 1)),
                      !.fp = @ + 1,
                      !.ip = fn_table[fn_name]])

\* Variant of ins_halt: the flag is set and the step returns an error
ins_halt_fails(m, exit_code) ==
    Err([m EXCEPT !.halt = Some(exit_code)], "Halted.")

\* The Halt arm of next_instruction: self.halt = Some(exit_code)
ins_halt(m, exit_code) == Ok([m EXCEPT !.halt = Some(exit_code)])

\* The match of next_instruction: the handler of one instruction
Dispatch(m, instruction) ==
    IF instruction.op = "Call" THEN ins_call(m, instruction.name)
    ELSE IF instruction.op = "RetValue" THEN ins_ret_value(m)
    ELSE IF instruction.op = "Ret" THEN ins_ret(m)
    ELSE IF instruction.op = "Mul" THEN ins_mul(m)
    ELSE IF instruction.op = "Add" THEN ins_add(m)
    ELSE IF instruction.op = "Incr" THEN ins_incr(m)
    ELSE IF instruction.op = "Decr" THEN ins_decr(m)
    ELSE IF instruction.op = "LoadVal" THEN ins_load_val(m, instruction.num)
    ELSE IF instruction.op = "ReadVar" THEN ins_read_var(m, instruction.str)
    ELSE IF instruction.op = "WriteVar" THEN ins_write_var(m, instruction.str)
    ELSE IF instruction.op = "PushStr" THEN ins_push_str(m, instruction.str)
    ELSE IF instruction.op = "PopStr" THEN ins_pop_str(m)
    ELSE IF instruction.op \in {"Je", "Jne", "Jg", "Jl"}
    THEN ins_jcond(m, instruction.op, instruction.num)
    ELSE IF instruction.op = "Jmp" THEN ins_jmp(m, instruction.num)
    ELSE IF instruction.op = "Cmp" THEN ins_cmp(m)
    ELSE IF instruction.op = "CmpStr" THEN ins_cmp_str(m)
    ELSE IF instruction.op = "Halt"
    THEN ins_halt(m, instruction.num)
    ELSE Ok(m)

\* Variant of AdvanceIp: ip stays where the handler left it
AdvanceIp_leaves(r, prev_ip) == r

\* "If the previous instruction pointer is changed, then a jmp/ret or call
\* instruction is called. Then don't change the ip."
AdvanceIp(r, prev_ip) ==
    IF prev_ip = r.m.ip THEN [r EXCEPT !.m.ip = @ + 1] ELSE r

next_instruction(m) ==
    IF m.ip >= Len(instructions) THEN Panic(m, "index out of bounds")
    ELSE Then(Dispatch(m, instructions[m.ip + 1]),
              LAMBDA r : AdvanceIp(r, m.ip))

(***************************************************************************)
(* The programs the machine is loaded with, as the lexer's token streams.  *)
(***************************************************************************)
\* The runs of the generated programs are followed up to this stack
\* pointer (the loops FillWithStrings and FillWithNumbers to the end),
\* and every run up to this frame depth, this many printed lines and this
\* many calls of run
MaxFill == 8
MaxDepth == 4
MaxOut == 3
MaxRuns == 2
\* How many steps hist remembers
HistLen == 3

Str_abcd == << 97, 98, 99, 100 >>
Str_abcde == << 97, 98, 99, 100, 101 >>
Str_eacute == << 195, 169 >>                   \* U+00E9, two bytes in UTF-8
Var_x == << 120 >>
Var_y == << 121 >>

Nums == {-1, 0, 1, MaxI32, MinI32}
\* String literals: the lexer yields none that is empty
Strs == {FilePath, Str_abcd, Str_abcde, Str_eacute}

\* One source line, without its newline
OpLine(op) == << TInstruction(op) >>
NumLine(op, n) == << TInstruction(op), TNumber(n) >>
StrLine(op, str) == << TInstruction(op), TStringLiteral(str) >>
CallLine(n) == << TInstruction("Call"), TName(n) >>
Label(n) == << TName(n), TColon >>
Blank == << >>

BodyLines ==
    {NumLine("LoadVal", n) : n \in Nums}
    \cup {StrLine("PushStr", t) : t \in Strs}
    \cup {OpLine(op) : op \in PlainOps}
    \cup {Blank}
    \cup {NumLine("Jmp", n) : n \in {-1, 0, 1, 2, MinI32}}
    \* the conditional jumps: to the next and to the previous instruction,
    \* to itself, past the last instruction, before the first, and so far
    \* that the distance is beyond i32
    \cup {NumLine(op, n) : op \in {"Je", "Jne", "Jg", "Jl"},
                           n \in {-1, 1, 0, -4, 9, MinI32}}
    \cup {StrLine("WriteVar", Var_x), StrLine("ReadVar", Var_x),
          StrLine("ReadVar", Var_y)}
    \cup {CallLine(n) : n \in {"F", "G", "MAIN"} \cup BuiltinFns}
    \cup {NumLine("Halt", n) : n \in {0, 7}}
    \cup {Label(n) : n \in {"F", "G", "MAIN"}}

\* What a generated program does before its line: nothing, or push one or
\* two numbers, or one or two strings, or bind a variable
Setups ==
    {<< >>, << NumLine("LoadVal", 1), StrLine("WriteVar", Var_x) >>}
    \cup {<< NumLine("LoadVal", a) >> : a \in Nums}
    \cup {<< NumLine("LoadVal", a), NumLine("LoadVal", b) >> :
             a \in Nums, b \in Nums}
    \cup {<< StrLine("PushStr", t) >> : t \in Strs}
    \cup {<< StrLine("PushStr", t), StrLine("PushStr", u) >> :
             t \in Strs, u \in Strs}

RECURSIVE Text(_)
\* The lines, each ended by a newline
Text(lines) ==
    IF lines = << >> THEN << >>
    ELSE Head(lines) \o << TNewline >> \o Text(Tail(lines))

\* The lines, the last one ended by the end of the input
TextNoEol(lines) ==
    LET t == Text(lines) IN SubSeq(t, 1, Len(t) - 1)

\* A generated program: F, which returns 42, then MAIN, which is a setup,
\* one line, and two lines for that line to jump over
Generate(setup, line) ==
    Text(<< Label("F"), NumLine("LoadVal", 42), OpLine("RetValue"),
            Label("MAIN") >> \o setup
         \o << line, OpLine("Nop"), NumLine("Halt", 7) >>)

\* The programs of the tests of vm.rs
TestLoad == TextNoEol(<< Label("MAIN"), NumLine("LoadVal", 10),
                         NumLine("LoadVal", 20), NumLine("Halt", 0) >>)
\* tests::read_write, arithmetic (twice), jmp (twice), push_str, pop_str,
\* cmp and cmp_str
TestPrograms ==
    LET Str_hello == << 104, 101, 108, 108, 111 >>
        Str_hello_world ==
            << 104, 101, 108, 108, 111, 32, 119, 111, 114, 108, 100 >>
    IN
    {Text(<< Label("MAIN"), NumLine("LoadVal", 10),
             StrLine("WriteVar", Var_x), NumLine("LoadVal", 20),
             StrLine("ReadVar", Var_x) >>),
     TextNoEol(<< Label("MAIN"), NumLine("LoadVal", 6),
                  NumLine("LoadVal", 4), OpLine("Add") >>),
     TextNoEol(<< Label("MAIN"), NumLine("LoadVal", 6),
                  NumLine("LoadVal", 4), OpLine("Mul") >>),
     TextNoEol(<< Label("MAIN"), OpLine("Nop"),
                  NumLine("LoadVal", 1), NumLine("Jmp", 2) >>),
     TextNoEol(<< Label("MAIN"), NumLine("Jmp", -2),
                  NumLine("LoadVal", 1), OpLine("Nop") >>),
     TextNoEol(<< Label("MAIN"), StrLine("PushStr", Str_hello_world),
                  NumLine("Halt", 0) >>),
     TextNoEol(<< Label("MAIN"), StrLine("PushStr", Str_hello_world),
                  OpLine("PopStr"), NumLine("Halt", 0) >>),
     TextNoEol(<< Label("MAIN"), NumLine("LoadVal", 1),
                  NumLine("LoadVal", 1), OpLine("Cmp") >>),
     TextNoEol(<< Label("MAIN"), StrLine("PushStr", Str_hello),
                  StrLine("PushStr", Str_hello), OpLine("CmpStr") >>)}

\* The factorial example of the crate documentation (lib.rs), with
\* print_line for its line 28
FactorialWith(print_line) ==
    LET Var_inp == << 105, 110, 112 >>
        Var_result == << 114, 101, 115, 117, 108, 116 >>
    IN
    Text(<< Label("MAIN"), Blank,
            NumLine("LoadVal", 5), StrLine("WriteVar", Var_inp), Blank,
            StrLine("ReadVar", Var_inp), StrLine("WriteVar", Var_result),
            Blank,
            StrLine("ReadVar", Var_inp), NumLine("LoadVal", 1),
            OpLine("Cmp"), NumLine("Je", -9),
            StrLine("ReadVar", Var_inp), OpLine("Decr"),
            StrLine("WriteVar", Var_inp), StrLine("ReadVar", Var_inp),
            StrLine("ReadVar", Var_result), OpLine("Mul"),
            StrLine("WriteVar", Var_result), NumLine("Jmp", 12), Blank,
            StrLine("ReadVar", Var_result), print_line, Blank,
            NumLine("Halt", 0) >>)

\* The example as the documentation gives it: line 28 is the word PRINT,
\* which Token::new makes a Name
DocFactorial == FactorialWith(<< TName("PRINT") >>)

\* The example with CALL PRINT for that line
FactorialCallingPrint == FactorialWith(CallLine("PRINT"))

\* Programs for the corners of the handlers
EdgePrograms ==
    {\* a function that jumps to the instruction after its call, a Ret
     Text(<< Label("MAIN"), CallLine("F"), OpLine("Ret"),
             Label("F"), NumLine("Jmp", 2) >>),
     \* loops that fill the operand stack
     Text(<< Label("MAIN"), StrLine("PushStr", Str_abcde),
             NumLine("Jmp", 1) >>),
     Text(<< Label("MAIN"), NumLine("LoadVal", 1), NumLine("Jmp", 1) >>),
     Text(<< Label("MAIN"), NumLine("LoadVal", 1),
             StrLine("PushStr", Str_abcde), NumLine("Jmp", 1) >>),
     \* the iterators of the built-ins
     Text(<< Label("MAIN"), StrLine("PushStr", FilePath),
             CallLine("READ_FILE"), StrLine("WriteVar", Var_x),
             StrLine("ReadVar", Var_x), CallLine("READ_FILE_NEXT"),
             NumLine("Jne", 2), OpLine("Ret") >>),
     Text(<< Label("MAIN"), StrLine("PushStr", DirPath),
             CallLine("TRAVERSE_DIR"), StrLine("WriteVar", Var_x),
             StrLine("ReadVar", Var_x), CallLine("TRAVERSE_DIR_NEXT"),
             NumLine("Jne", 2), OpLine("Ret") >>),
     \* a function whose value MAIN finds on the stack
     Text(<< Label("F"), NumLine("LoadVal", 42), OpLine("RetValue"),
             Label("MAIN"), CallLine("F"), NumLine("Halt", 0) >>),
     \* a function that jumps to the instruction after its call, a RetValue
     Text(<< Label("MAIN"), CallLine("F"), OpLine("RetValue"),
             Label("F"), NumLine("LoadVal", 42), NumLine("Jmp", 3) >>),
     \* an iterator id that outlives the frame of its iterator
     Text(<< Label("MAIN"), CallLine("G"), CallLine("READ_FILE_NEXT"),
             NumLine("Halt", 0),
             Label("G"), StrLine("PushStr", FilePath), CallLine("READ_FILE"),
             OpLine("Ret") >>),
     \* an iterator id of the caller, used by the callee
     Text(<< Label("MAIN"), StrLine("PushStr", FilePath),
             CallLine("READ_FILE"), CallLine("G"), NumLine("Halt", 0),
             Label("G"), CallLine("READ_FILE_NEXT"), OpLine("Ret") >>),
     \* a file of two lines asked for four
     Text(<< Label("MAIN"), StrLine("PushStr", FilePath),
             CallLine("READ_FILE"), StrLine("WriteVar", Var_x),
             StrLine("ReadVar", Var_x), CallLine("READ_FILE_NEXT"),
             StrLine("ReadVar", Var_x), CallLine("READ_FILE_NEXT"),
             StrLine("ReadVar", Var_x), CallLine("READ_FILE_NEXT"),
             StrLine("ReadVar", Var_x), CallLine("READ_FILE_NEXT"),
             NumLine("Halt", 0) >>),
     \* the empty second line of the file compared with a literal
     Text(<< Label("MAIN"), StrLine("PushStr", FilePath),
             CallLine("READ_FILE"), StrLine("WriteVar", Var_x),
             StrLine("ReadVar", Var_x), CallLine("READ_FILE_NEXT"),
             StrLine("WriteVar", Var_y), OpLine("PopStr"),
             StrLine("ReadVar", Var_x), CallLine("READ_FILE_NEXT"),
             StrLine("WriteVar", Var_y),
             StrLine("PushStr", Str_abcd), OpLine("CmpStr"),
             NumLine("Halt", 0) >>),
     \* three iterators registered in one frame and asked for in turn
     Text(<< Label("MAIN"),
             StrLine("PushStr", FilePath), CallLine("READ_FILE"),
             StrLine("WriteVar", Var_x),
             StrLine("PushStr", DirPath), CallLine("TRAVERSE_DIR"),
             StrLine("WriteVar", Var_y),
             StrLine("PushStr", FilePath), CallLine("READ_FILE"),
             CallLine("READ_FILE_NEXT"),
             StrLine("ReadVar", Var_x), CallLine("READ_FILE_NEXT"),
             StrLine("ReadVar", Var_x), CallLine("READ_FILE_NEXT"),
             StrLine("ReadVar", Var_y), CallLine("TRAVERSE_DIR_NEXT"),
             NumLine("Halt", 0) >>),
     \* labels after blank lines, the last line ended by the end of input
     TextNoEol(<< Blank, Label("F"), NumLine("LoadVal", 42),
                  OpLine("RetValue"), Blank, Blank, Label("MAIN"),
                  CallLine("F"), NumLine("Halt", 0) >>)}

\* A variable bound, another bound, the first bound again, and both read
Rebind ==
    Text(<< Label("MAIN"),
            NumLine("LoadVal", 1), StrLine("WriteVar", Var_x),
            NumLine("LoadVal", 2), StrLine("WriteVar", Var_y),
            NumLine("LoadVal", 3), StrLine("WriteVar", Var_x),
            StrLine("ReadVar", Var_x), StrLine("ReadVar", Var_y),
            NumLine("Halt", 0) >>)

\* MAIN binds x and calls G, which binds an x of its own, and H, which
\* reads an x it never bound
Scopes ==
    Text(<< Label("MAIN"),
            NumLine("LoadVal", 1), StrLine("WriteVar", Var_x),
            CallLine("G"), StrLine("ReadVar", Var_x), CallLine("H"),
            NumLine("Halt", 0),
            Label("G"),
            NumLine("LoadVal", 2), StrLine("WriteVar", Var_x),
            StrLine("ReadVar", Var_x), OpLine("Ret"),
            Label("H"),
            StrLine("ReadVar", Var_x) >>)

\* A program with a function of its own named PRINT
ShadowPrint ==
    Text(<< Label("MAIN"), NumLine("LoadVal", 5), CallLine("PRINT"),
            NumLine("Halt", 0),
            Label("PRINT"), NumLine("LoadVal", 9), OpLine("Ret") >>)

\* A call of a function nobody defines, behind the Halt
DeadCall ==
    Text(<< Label("MAIN"), NumLine("LoadVal", 1), NumLine("Halt", 3),
            CallLine("G") >>)

\* A Halt in a function MAIN calls
HaltInCallee ==
    Text(<< Label("MAIN"), CallLine("F"), NumLine("Halt", 0),
            Label("F"), NumLine("LoadVal", 1), NumLine("Halt", 3),
            NumLine("LoadVal", 2) >>)

\* MAIN: followed only by newlines
MainOnly == Text(<< Label("MAIN"), Blank, Blank >>)

\* Texts the parser rejects: no MAIN, nothing at all, MAIN defined twice,
\* a name without its colon, an operand missing, two instructions on a
\* line, a number where a line starts
NoMain == Text(<< Label("F"), OpLine("Ret") >>)

Rejected ==
    {NoMain, << >>,
     Text(<< Label("MAIN"), Label("MAIN") >>),
     Text(<< << TName("MAIN") >> >>),
     Text(<< Label("MAIN"), OpLine("LoadVal") >>),
     Text(<< Label("MAIN"), << TInstruction("Nop"), TInstruction("Nop") >> >>),
     Text(<< Label("MAIN"), << TNumber(1) >> >>),
     \* an operand of the wrong kind, an operand too many, a statement
     \* after a label's colon, a literal and a colon where a statement starts
     Text(<< Label("MAIN"), StrLine("LoadVal", Str_abcd) >>),
     Text(<< Label("MAIN"), NumLine("PushStr", 1) >>),
     Text(<< Label("MAIN"), NumLine("Call", 1) >>),
     Text(<< Label("MAIN"), CallLine("F") \o << TNumber(1) >> >>),
     Text(<< Label("MAIN"), NumLine("Add", 1) >>),
     Text(<< Label("MAIN") \o OpLine("Nop") >>),
     Text(<< Label("MAIN"), << TStringLiteral(Str_abcd) >> >>),
     Text(<< Label("MAIN"), << TColon >> >>)}

WrittenPrograms ==
    {TestLoad, DocFactorial, FactorialCallingPrint, MainOnly, Rebind, Scopes,
     ShadowPrint, DeadCall, HaltInCallee}
    \cup TestPrograms \cup EdgePrograms
    \cup Rejected

(***************************************************************************)
(* The state machine: load, run, and one step of run's loop per            *)
(* instruction.                                                            *)
(***************************************************************************)
\* BciVm::load: the machine, or the parser's error and no machine
\* No call of next_token yet
NotLexed == [res |-> "new", val |-> None, msg |-> "", cursor0 |-> 0]

\* BciVm::load has built the machine from the tokens of program
MachineLoaded ==
    /\ overflow_checks = "unknown"
    /\ LET bytecode == Parse(program) IN
        /\ instructions = bytecode.instructions
        /\ fn_table = bytecode.fn_table
        /\ status = IF bytecode.ok THEN "loaded" ELSE "load_err"
        /\ err = bytecode.err
        /\ err_arg = bytecode.arg
    /\ ip = 0
    /\ sp = -1
    /\ fp = -1
    /\ halt = None
    /\ stack = << >>
    /\ frame_stack = << >>
    /\ out = << >>
    /\ runs = 0
    /\ popped = << >>
    /\ oob = FALSE
    /\ hist = << >>

\* The machine loaded from a program; the lexer is followed on its own,
\* under LexSpec
Init ==
    /\ \/ program \in WrittenPrograms
       \/ \E setup \in Setups, line \in BodyLines :
              program = Generate(setup, line)
    /\ MachineLoaded
    /\ lexer = LexerNew(<< >>)
    /\ lexed = NotLexed

\* Variant of Run: run enters its loop whatever the halt flag says
Run_reenters ==
    /\ status \in {"loaded", "ok", "err"}
    /\ runs < MaxRuns
    /\ runs' = runs + 1
    /\ status' = "running" /\ err' = ""
    /\ err_arg' = None
    /\ UNCHANGED << program, instructions, fn_table, overflow_checks, ip, sp,
                    fp, halt, stack, frame_stack, out, popped, oob, hist,
                    lexer, lexed >>

\* BciVm::run is called: it refuses a halted machine and else enters its
\* loop (a machine whose last run returned an error is run on from where
\* it stands)
Run ==
    /\ status \in {"loaded", "ok", "err"}
    /\ runs < MaxRuns
    /\ runs' = runs + 1
    /\ IF IsSome(halt)
       THEN status' = "err" /\ err' = "Program is already ended."
       ELSE status' = "running" /\ err' = ""
    /\ err_arg' = None
    /\ UNCHANGED << program, instructions, fn_table, overflow_checks, ip, sp,
                    fp, halt, stack, frame_stack, out, popped, oob, hist,
                    lexer, lexed >>

\* What hist keeps of a step: the instruction, its index, how it ended
\* (with the message and the name the message formats); from just before
\* it the stack pointer, the two cells on top (rhs0 the last pushed), the
\* frame depth, the return address of the top frame, the frame pointer,
\* the frame stack, the number of printed lines and the operand stack;
\* from just after it the stack pointer and the instruction pointer
HistEntry(ins, r) ==
    [ins |-> ins, at |-> ip, res |-> r.res, msg |-> r.msg,
     sp0 |-> sp, depth0 |-> Len(frame_stack),
     rhs0 |-> IF sp >= 0 THEN Cell(stack, sp) ELSE 0,
     lhs0 |-> IF sp >= 1 THEN Cell(stack, sp - 1) ELSE 0,
     ret0 |-> IF frame_stack = << >> THEN -1
              ELSE LastFrame(frame_stack).ret_addr,
     sp1 |-> r.m.sp, ip1 |-> r.m.ip,
     fp0 |-> fp, frames0 |-> frame_stack, out0 |-> Len(out),
     stack0 |-> stack,
     arg |-> IF r.res = "err" THEN r.val ELSE None]


\* The loop of run takes the result r of next_instruction: it goes on,
\* returns Ok once halt is set, or returns the error; a panic ends the
\* thread.  After a write outside the array the process may die at once or
\* go on to the panic of push_stack.
Commit(ins, r) ==
    /\ ip' = r.m.ip
    /\ sp' = r.m.sp
    /\ fp' = r.m.fp
    /\ halt' = r.m.halt
    /\ stack' = r.m.stack
    /\ frame_stack' = r.m.frame_stack
    /\ out' = r.m.out
    /\ err' = r.msg
    /\ err_arg' = IF r.res = "err" THEN r.val ELSE None
    /\ oob' = (oob \/ r.res = "ub")
    /\ overflow_checks' = IF r.m.overflowed THEN r.m.checks
                          ELSE overflow_checks
    /\ popped' = IF ins.op = "PopStr" /\ r.res = "ok" THEN r.val ELSE popped
    /\ IF r.res = "ub" THEN status' \in {"ub", "panic"}
       ELSE IF r.res = "ok"
       THEN status' = IF IsSome(r.m.halt) THEN "ok" ELSE "running"
       ELSE status' = r.res
    /\ hist' = << HistEntry(ins, r) >>
                \o SubSeq(hist, 1, IF Len(hist) < HistLen THEN Len(hist)
                                   ELSE HistLen - 1)
    /\ UNCHANGED << program, instructions, fn_table, runs, lexer, lexed >>

\* The builds the run so far can be of
Builds == IF overflow_checks = "unknown" THEN {"on", "off"}
          ELSE {overflow_checks}

\* run's loop is at an instruction; the run of a generated program is
\* followed while sp < MaxFill
Fetchable ==
    /\ status = "running"
    /\ ip < Len(instructions)
    /\ program \notin WrittenPrograms => sp < MaxFill
Current == instructions[ip + 1]

\* One turn of the loop of run: next_instruction and what run does with
\* its result
Execute ==
    \E checks \in Builds : Commit(Current, next_instruction(VM(checks)))

\* self.bytecode.instructions[self.ip] with ip past the last instruction
FetchPastEnd ==
    /\ status = "running"
    /\ ip >= Len(instructions)
    /\ \E checks \in Builds :
           Commit(Plain("None"), next_instruction(VM(checks)))


StepCall ==
    /\ Fetchable /\ Current.op = "Call"
    /\ Current.name \in DOMAIN fn_table \ BuiltinFns
           => Len(frame_stack) < MaxDepth
    /\ Current.name \in {"PRINT", "PRINT_STR"} => Len(out) < MaxOut
    /\ Execute
StepRetValue == Fetchable /\ Current.op = "RetValue" /\ Execute
StepRet == Fetchable /\ Current.op = "Ret" /\ Execute
StepMul == Fetchable /\ Current.op = "Mul" /\ Execute
StepAdd == Fetchable /\ Current.op = "Add" /\ Execute
StepIncr == Fetchable /\ Current.op = "Incr" /\ Execute
StepDecr == Fetchable /\ Current.op = "Decr" /\ Execute
StepLoadVal == Fetchable /\ Current.op = "LoadVal" /\ Execute
StepReadVar == Fetchable /\ Current.op = "ReadVar" /\ Execute
StepWriteVar == Fetchable /\ Current.op = "WriteVar" /\ Execute
StepPushStr == Fetchable /\ Current.op = "PushStr" /\ Execute
StepPopStr == Fetchable /\ Current.op = "PopStr" /\ Execute
StepJe == Fetchable /\ Current.op = "Je" /\ Execute
StepJne == Fetchable /\ Current.op = "Jne" /\ Execute
StepJg == Fetchable /\ Current.op = "Jg" /\ Execute
StepJl == Fetchable /\ Current.op = "Jl" /\ Execute
StepJmp == Fetchable /\ Current.op = "Jmp" /\ Execute
StepCmp == Fetchable /\ Current.op = "Cmp" /\ Execute
StepCmpStr == Fetchable /\ Current.op = "CmpStr" /\ Execute
StepHalt == Fetchable /\ Current.op = "Halt" /\ Execute
StepNop == Fetchable /\ Current.op = "Nop" /\ Execute

Next ==
    \/ Run
    \/ StepCall \/ StepRetValue \/ StepRet \/ StepMul \/ StepAdd
    \/ StepIncr \/ StepDecr \/ StepLoadVal \/ StepReadVar \/ StepWriteVar
    \/ StepPushStr \/ StepPopStr \/ StepJe \/ StepJne \/ StepJg \/ StepJl
    \/ StepJmp \/ StepCmp \/ StepCmpStr \/ StepHalt \/ StepNop
    \/ FetchPastEnd

Spec == Init /\ [][Next]_vars

(***************************************************************************)
(* The lexer on its own: a Lexer is made for a text and next_token is      *)
(* called, as Parser::parse calls it, until it returns None or an error.   *)
(***************************************************************************)
MaxText == 4

RECURSIVE TextsOf(_)
\* The texts of up to n bytes, written with the quote, the newline, the
\* space, the colon, a letter, a digit and the minus sign
TextsOf(n) ==
    IF n = 0 THEN {<< >>}
    ELSE LET shorter == TextsOf(n - 1) IN
         shorter \cup {Append(t, b) : t \in shorter,
                                      b \in {39, 10, 32, 58, 97, 49, 45}}

\* Every text of up to MaxText bytes, and longer ones: PUSH_STR '' and a
\* newline, '' 'a', PUSH_STR 'a b' without a newline, a number too large
LexTexts ==
    TextsOf(MaxText)
    \cup {<< 80, 85, 83, 72, 95, 83, 84, 82, 32, 39, 39, 10 >>,
          << 39, 39, 32, 39, 97, 39 >>,
          << 80, 85, 83, 72, 95, 83, 84, 82, 32, 39, 97, 32, 98, 39 >>,
          << 50, 49, 52, 55, 52, 56, 51, 54, 52, 56, 10 >>,
          << 45, 50, 49, 52, 55, 52, 56, 51, 54, 52, 56, 10 >>}

LexInit ==
    /\ program = << >>
    /\ MachineLoaded
    /\ lexer \in {LexerNew(text) : text \in LexTexts}
    /\ lexed = NotLexed

NextToken ==
    /\ lexed.res # "err"
    /\ lexed.res = "ok" => lexed.val # None
    /\ LET r == next_token(lexer) IN
        /\ lexer' = r.l
        /\ lexed' = [res |-> r.res, val |-> r.val, msg |-> r.msg,
                     cursor0 |-> lexer.cursor]
    /\ UNCHANGED << program, instructions, fn_table, overflow_checks, ip, sp,
                    fp, halt, stack, frame_stack, out, status, err, err_arg,
                    runs, popped, oob, hist >>

LexSpec == LexInit /\ [][NextToken]_vars

(***************************************************************************)
(* The claims of the specification, over the steps hist remembers          *)
(* (hist[1] is the step taken last).                                       *)
(***************************************************************************)
\* The k-th last step was instruction op
Did(k, op) == Len(hist) >= k /\ hist[k].ins.op = op
\* ... and returned Ok
Ran(k, op) == Did(k, op) /\ hist[k].res = "ok"
\* The cell on top of the operand stack
Top == Cell(stack, sp)

\* C1: PushStr(s) and then PopStr, from sp = p, yield exactly s and end
\* with sp = p again, for every string s that fits (the empty one and the
\* lengths that are multiples of 4 included).
C1_RoundTrip ==
    (Ran(2, "PushStr") /\ Ran(1, "PopStr"))
        => popped = hist[2].ins.str /\ sp = hist[2].sp0

\* C1, where it fails: a string with a byte above 127 comes back with two
\* bytes for it
C1_NonAsciiComesBackLonger ==
    /\ Ran(2, "PushStr") /\ Ran(1, "PopStr")
    /\ hist[2].ins.str = Str_eacute
    /\ popped = << 195, 131, 194, 169 >>
    /\ sp = hist[2].sp0

\* C2: a Call of a user function at index c and depth d pushes exactly one
\* frame (depth d + 1, ret_addr = c + 1, ip = the function's ptr), and a
\* Ret or RetValue removes exactly the top frame and the instruction
\* fetched next is the one at that frame's ret_addr, wherever the Ret or
\* RetValue itself is located.
C2_CallReturnPairing ==
    /\ (Ran(1, "Call") /\ hist[1].ins.name \notin BuiltinFns)
           => /\ Len(frame_stack) = hist[1].depth0 + 1
              /\ LastFrame(frame_stack).ret_addr = hist[1].at + 1
              /\ ip = fn_table[hist[1].ins.name]
    /\ (Ran(1, "Ret") \/ Ran(1, "RetValue"))
           => /\ Len(frame_stack) = hist[1].depth0 - 1
              /\ ip = hist[1].ret0

\* C2, where it fails: a Ret located at the return address of the frame it
\* removes is followed by the instruction after it
C2_ReturnAtReturnAddress ==
    /\ Ran(1, "Ret")
    /\ hist[1].at = hist[1].ret0
    /\ Len(frame_stack) = hist[1].depth0 - 1
    /\ ip = hist[1].ret0 + 1

\* A Ret, or a RetValue with a value to return (any RetValue if
\* with_empty_stack), k steps ago, with the frame of the prologue's
\* Call("MAIN") the only frame
OutOfMain(k, with_empty_stack) ==
    /\ Len(hist) >= k
    /\ hist[k].depth0 = 1 /\ hist[k].ret0 = 1
    /\ \/ hist[k].ins.op = "Ret"
       \/ hist[k].ins.op = "RetValue" /\ (with_empty_stack \/ hist[k].sp0 >= 0)

\* What C3 promises after such a step and after the step that follows it
CleanExit(with_empty_stack) ==
    /\ OutOfMain(1, with_empty_stack)
           => /\ hist[1].res = "ok"
              /\ status = "running"
              /\ frame_stack = << >>
              /\ ip = 1 /\ Current = Halt(0)
    /\ OutOfMain(2, with_empty_stack)
           => /\ hist[1].at = 1 /\ hist[1].ins = Halt(0)
              /\ halt = Some(0)
              /\ status \in {"ok", "err"}
              /\ status = "err" => err = "Program is already ended."

\* C3 (amended): whenever Ret, or RetValue with at least one value on the
\* operand stack, executes while the frame created by the prologue
\* Call("MAIN") is the only frame, the next instruction executed is the
\* prologue Halt(0) at index 1 and the machine halts with exit code 0.
C3_ReturnOutOfMain == CleanExit(FALSE)

\* C3 as stated: the same of every RetValue, the one that finds the
\* operand stack empty included
C3_AnyReturnOutOfMain == CleanExit(TRUE)

\* MAIN returned and the prologue's Halt(0) halted the machine
C3_Halted == OutOfMain(2, FALSE) /\ hist[2].ins.op = "Ret" /\ halt = Some(0)

\* C4: the program `MAIN:` followed only by newlines runs MAIN's Nops and
\* then the prologue Halt(0): it does not abort and does not fetch an
\* instruction index outside the instruction array.
C4_FallThroughExit ==
    program = MainOnly
        => /\ status \notin {"panic", "ub"}
           /\ status = "running" => ip < Len(instructions)
           /\ IsSome(halt) => halt = Some(0)

\* C4, where it fails: after the Nops the fetch is past the last
\* instruction, and the machine never halted
C4_FetchedPastEnd ==
    /\ program = MainOnly
    /\ status = "panic" /\ err = "index out of bounds"
    /\ ip = Len(instructions) /\ halt = None
    /\ Did(2, "Nop")

\* The instructions that pop first
Poppers == {"PopStr", "Cmp", "CmpStr", "Incr", "Decr", "Add", "Mul",
            "Je", "Jne", "Jg", "Jl", "WriteVar", "RetValue"}

\* C5: a push beyond the 1000 cells, or a pop from the empty stack, ends
\* the execution with a fatal error, and nothing is written or read outside
\* cells 0..999: PushStr(s) fails instead of copying a byte of s past cell
\* 999.
C5_CapacityEnforced ==
    /\ ~oob
    /\ Len(hist) >= 1
           => /\ hist[1].sp1 >= STACK_LEN => hist[1].res \in {"err", "panic"}
              /\ (hist[1].ins.op \in Poppers /\ hist[1].sp0 < 0)
                     => hist[1].res = "err"

\* C5, where it fails: a PushStr that begins in the last cell has copied
\* bytes past it
C5_CopiedPastTheEnd ==
    /\ oob
    /\ Did(1, "PushStr")
    /\ hist[1].sp0 = STACK_LEN - 2
    /\ Len(hist[1].ins.str) > 4

\* C6: Cmp pops rhs (pushed last) and then lhs (pushed first) and pushes
\* exactly one of 0 if lhs = rhs, 1 if lhs > rhs, -1 if lhs < rhs; sp ends
\* one lower.
C6_CmpByPushOrder ==
    (Did(1, "Cmp") /\ hist[1].sp0 >= 1)
        => /\ hist[1].res = "ok"
           /\ sp = hist[1].sp0 - 1
           /\ hist[1].lhs0 = hist[1].rhs0 => Top = 0
           /\ hist[1].lhs0 > hist[1].rhs0 => Top = 1
           /\ hist[1].lhs0 < hist[1].rhs0 => Top = -1

\* Cmp found the value pushed first the greater and pushed 1
C6_FirstGreater ==
    /\ Ran(1, "Cmp")
    /\ hist[1].lhs0 > hist[1].rhs0
    /\ Top = 1 /\ sp = hist[1].sp0 - 1

\* The last three steps were LoadVal(a); LoadVal(b); op
Loaded(op) == Ran(3, "LoadVal") /\ Ran(2, "LoadVal") /\ Did(1, op)
LoadedA == hist[3].ins.num
LoadedB == hist[2].ins.num

\* C7 (amended): after LoadVal(a); LoadVal(b); Cmp the top of the stack is
\* 0 if and only if a = b, 1 if and only if a > b, and -1 if and only if
\* a < b.
C7_CmpAfterLoads ==
    Loaded("Cmp")
        => /\ hist[1].res = "ok"
           /\ Top = 0 <=> LoadedA = LoadedB
           /\ Top = 1 <=> LoadedA > LoadedB
           /\ Top = -1 <=> LoadedA < LoadedB

\* C7 as stated: 1 if and only if b > a, and -1 if and only if b < a
C7_CmpAfterLoadsReversed ==
    Loaded("Cmp")
        => /\ hist[1].res = "ok"
           /\ Top = 0 <=> LoadedA = LoadedB
           /\ Top = 1 <=> LoadedB > LoadedA
           /\ Top = -1 <=> LoadedB < LoadedA

\* a < b were loaded and Cmp pushed -1
C7_SecondGreater ==
    Loaded("Cmp") /\ hist[1].res = "ok" /\ LoadedA < LoadedB /\ Top = -1

\* C8: after LoadVal(a); LoadVal(b); Add (Mul), with a + b (a * b) in the
\* range of i32, the top of the stack is a + b (a * b), the two operands
\* are gone and sp is one lower than just before the Add (Mul); with fewer
\* than two values on the stack Add and Mul fail with an error.
C8_AddMul ==
    /\ (Loaded("Add") /\ ~AddOverflows(LoadedA, LoadedB))
           => /\ hist[1].res = "ok"
              /\ Top = LoadedA + LoadedB
              /\ sp = hist[1].sp0 - 1 /\ sp = hist[3].sp0 + 1
    /\ (Loaded("Mul") /\ ~MulOverflows(LoadedA, LoadedB))
           => /\ hist[1].res = "ok"
              /\ Top = LoadedA * LoadedB
              /\ sp = hist[1].sp0 - 1 /\ sp = hist[3].sp0 + 1
    /\ ((Did(1, "Add") \/ Did(1, "Mul")) /\ hist[1].sp0 < 1)
           => hist[1].res = "err" /\ sp = hist[1].sp0

\* -1 and the greatest i32 were loaded and Mul left their product
C8_Multiplied ==
    /\ Loaded("Mul") /\ hist[1].res = "ok"
    /\ LoadedA = -1 /\ LoadedB = MaxI32
    /\ Top = -MaxI32 /\ sp = hist[1].sp0 - 1

\* C9: Jmp(n) at index i with n # 0 sets ip to i - n when n <= i and
\* i - n < instructions.len(); when n > i or i - n >= instructions.len()
\* it fails with "Invalid jump." and ip is not changed.
C9_JumpBackwardChecked ==
    (Did(1, "Jmp") /\ hist[1].ins.num # 0)
        => IF /\ hist[1].ins.num <= hist[1].at
              /\ ~SubOverflows(hist[1].at, hist[1].ins.num)
              /\ hist[1].at - hist[1].ins.num < Len(instructions)
           THEN hist[1].res = "ok" /\ ip = hist[1].at - hist[1].ins.num
           ELSE /\ hist[1].res = "err" /\ hist[1].msg = "Invalid jump."
                /\ ip = hist[1].at

\* C9, where it fails: i - n is beyond i32 and the subtraction panicked
C9_SubtractionPanicked ==
    /\ Did(1, "Jmp")
    /\ hist[1].ins.num = MinI32
    /\ hist[1].res = "panic"
    /\ overflow_checks = "on"

Branches(op, v) ==
    \/ op = "Je" /\ v = 0
    \/ op = "Jne" /\ v # 0
    \/ op = "Jg" /\ v = 1
    \/ op = "Jl" /\ v = -1

\* C11: Je(n), Jne(n), Jg(n), Jl(n) pop exactly one value v whether or not
\* they branch; Je branches iff v = 0, Jne iff v # 0, Jg iff v = 1, Jl iff
\* v = -1; a branch behaves as Jmp(n) at the same index (same target, same
\* failures, ip left alone on a failure), and without a branch execution
\* continues at the next instruction.
C11_ConditionalJumps ==
    (Len(hist) >= 1 /\ hist[1].ins.op \in {"Je", "Jne", "Jg", "Jl"}
                   /\ hist[1].sp0 >= 0)
        => LET i == hist[1].at
               n == hist[1].ins.num
           IN  /\ sp = hist[1].sp0 - 1
               /\ IF ~Branches(hist[1].ins.op, hist[1].rhs0)
                  THEN hist[1].res = "ok" /\ ip = i + 1
                  ELSE IF n > i THEN /\ hist[1].res = "err"
                                     /\ hist[1].msg = "Invalid jump." /\ ip = i
                  ELSE IF SubOverflows(i, n)
                  THEN /\ ip = i
                       /\ overflow_checks = "on" => hist[1].res = "panic"
                       /\ overflow_checks = "off"
                              => hist[1].res = "err" /\ hist[1].msg = "Invalid jump."
                  ELSE IF i - n >= Len(instructions)
                  THEN /\ hist[1].res = "err"
                       /\ hist[1].msg = "Invalid jump." /\ ip = i
                  ELSE /\ hist[1].res = "ok"
                       /\ ip = IF n = 0 THEN i + 1 ELSE i - n

\* Jg popped 1 and went one instruction back
C11_JgBranched ==
    /\ Ran(1, "Jg")
    /\ hist[1].rhs0 = 1 /\ hist[1].ins.num = 1
    /\ ip = hist[1].at - 1 /\ sp = hist[1].sp0 - 1

\* The local variables of the frame the step taken last worked on
\* (frame_stack[fp]), before the step and after it
Locals0 == hist[1].frames0[hist[1].fp0 + 1].local_vars
Locals1 == frame_stack[hist[1].fp0 + 1].local_vars

\* C12: WriteVar(x) pops one value v and binds x to v in the current (top)
\* frame, replacing an earlier binding of x and leaving the other names
\* alone; ReadVar(x) pushes the value x is bound to in that frame and
\* leaves the bindings in place, so a ReadVar(x) after a WriteVar(x) pushes
\* the v written; ReadVar of a name without a binding in the current frame
\* fails with "Variable 'x' does not exist." and pushes nothing.
C12_VariableRoundTrip ==
    /\ (Did(1, "WriteVar") \/ Did(1, "ReadVar"))
           => hist[1].depth0 >= 1 /\ hist[1].fp0 = hist[1].depth0 - 1
    /\ (Did(1, "WriteVar") /\ hist[1].sp0 >= 0)
           => /\ hist[1].res = "ok"
              /\ sp = hist[1].sp0 - 1
              /\ DOMAIN Locals1 = DOMAIN Locals0 \cup {hist[1].ins.str}
              /\ \A x \in DOMAIN Locals1 :
                     Locals1[x] = IF x = hist[1].ins.str THEN hist[1].rhs0
                                  ELSE Locals0[x]
    /\ (Did(1, "ReadVar") /\ hist[1].sp0 < STACK_LEN - 1)
           => /\ frame_stack = hist[1].frames0
              /\ IF hist[1].ins.str \in DOMAIN Locals0
                 THEN /\ hist[1].res = "ok"
                      /\ sp = hist[1].sp0 + 1
                      /\ Top = Locals0[hist[1].ins.str]
                 ELSE /\ hist[1].res = "err"
                      /\ hist[1].msg = "Variable '{}' does not exist."
                      /\ hist[1].arg = Some(hist[1].ins.str)
                      /\ sp = hist[1].sp0
    /\ (Ran(2, "WriteVar") /\ Did(1, "ReadVar")
            /\ hist[1].ins.str = hist[2].ins.str)
           => hist[1].res = "ok" /\ Top = hist[2].rhs0

\* x was bound to 1 and then to 3, y to 2: x reads 3
C12_ReadsLastWritten ==
    /\ program = Rebind
    /\ Ran(2, "WriteVar") /\ Ran(1, "ReadVar")
    /\ hist[1].ins.str = Var_x /\ Top = 3
    /\ Locals1 = (Var_x :> 3) @@ (Var_y :> 2)

\* C13: a variable written in a caller's frame is not readable inside a
\* called user function (ReadVar fails as missing unless the callee wrote
\* the name itself), a WriteVar in the callee changes no binding of the
\* caller's frame, and after the callee returns the caller's bindings are
\* what they were at the Call.  Step by step: a user Call pushes a frame
\* without variables on top of the unchanged frames; ReadVar looks at the
\* current frame alone; no step changes the variables of a frame below the
\* current one, and only WriteVar those of the current one; a return
\* removes the current frame and nothing else.
C13_NoCrossFrameScope ==
    Len(hist) >= 1 =>
    /\ (Ran(1, "Call") /\ hist[1].ins.name \notin BuiltinFns)
           => /\ DOMAIN LastFrame(frame_stack).local_vars = {}
              /\ PopFrame(frame_stack) = hist[1].frames0
    /\ (Did(1, "ReadVar") /\ hist[1].ins.str \notin DOMAIN Locals0)
           => hist[1].res = "err" /\ sp = hist[1].sp0
    /\ \A k \in 1..Len(frame_stack) :
           (k < hist[1].depth0 \/ (k = hist[1].depth0 /\ ~Did(1, "WriteVar")))
               => frame_stack[k].local_vars = hist[1].frames0[k].local_vars
    /\ (Ran(1, "Ret") \/ Ran(1, "RetValue"))
           => frame_stack = PopFrame(hist[1].frames0)
    /\ (program = Scopes /\ Ran(1, "ReadVar") /\ hist[1].depth0 = 1)
           => Top = 1

\* MAIN bound x to 1, G bound its own x to 2 and returned, and H, called
\* next, finds no x, while MAIN's x is still 1
C13_CalleeSeesNothing ==
    /\ program = Scopes
    /\ Did(1, "ReadVar") /\ hist[1].ins.str = Var_x
    /\ hist[1].res = "err" /\ hist[1].depth0 = 2
    /\ frame_stack[1].local_vars = (Var_x :> 1)

\* C14: Call(name) with name one of PRINT, PRINT_STR, READ_FILE,
\* READ_FILE_NEXT, TRAVERSE_DIR, TRAVERSE_DIR_NEXT invokes the built-in,
\* also when the program defines a label of that name (PRINT with a value
\* on the stack pops it and prints one line); the call pushes no frame,
\* leaves fp and the frame stack depth unchanged, and continues at the
\* instruction after the Call.
C14_BuiltinsFirst ==
    (Did(1, "Call") /\ hist[1].ins.name \in BuiltinFns)
        => /\ Len(frame_stack) = hist[1].depth0
           /\ fp = hist[1].fp0
           /\ \A k \in 1..Len(frame_stack) :
                  frame_stack[k].ret_addr = hist[1].frames0[k].ret_addr
           /\ hist[1].res = "ok" => ip = hist[1].at + 1
           /\ (hist[1].ins.name = "PRINT" /\ hist[1].sp0 >= 0)
                  => /\ hist[1].res = "ok"
                     /\ sp = hist[1].sp0 - 1
                     /\ Len(out) = hist[1].out0 + 1

\* CALL PRINT in a program that defines PRINT itself printed the 5 on the
\* stack and went on in MAIN
C14_PrintedNotCalled ==
    /\ program = ShadowPrint
    /\ "PRINT" \in DOMAIN fn_table
    /\ Ran(1, "Call") /\ hist[1].ins.name = "PRINT"
    /\ out = << << 62, 62, 62, 62, 62, 32, 53 >> >>
    /\ ip = hist[1].at + 1 /\ Len(frame_stack) = 1 /\ fp = 0

\* A Call of a name that is neither a built-in nor a label of the program
Unresolved(k) ==
    /\ Did(k, "Call")
    /\ hist[k].ins.name \notin BuiltinFns
    /\ hist[k].ins.name \notin DOMAIN fn_table

\* The instruction list holds a Call that resolves to nothing
HasUnresolvedCall ==
    \E i \in 1..Len(instructions) :
        /\ instructions[i].op = "Call"
        /\ instructions[i].name \notin BuiltinFns
        /\ instructions[i].name \notin DOMAIN fn_table

\* C15: a program with CALL f, f neither a label nor a built-in, is
\* accepted by the parser; executing that Call returns the error
\* "Function 'f' does not exist." with the frame stack, fp, sp and ip as
\* they were; the steps before it are not affected by it, and a program
\* that never executes it halts as if it were not there.
C15_UnresolvedCallFailsAtRunTime ==
    /\ (\E setup \in Setups : program = Generate(setup, CallLine("G")))
           => status # "load_err" /\ HasUnresolvedCall
    /\ Unresolved(1)
           => /\ hist[1].res = "err"
              /\ hist[1].msg = "Function '{}' does not exist."
              /\ hist[1].arg = Some(hist[1].ins.name)
              /\ frame_stack = hist[1].frames0
              /\ fp = hist[1].fp0
              /\ sp = hist[1].sp0
              /\ ip = hist[1].at
              /\ Len(out) = hist[1].out0
    /\ (program = DeadCall /\ status \in {"ok", "err"})
           => /\ HasUnresolvedCall
              /\ halt = Some(3) /\ sp = 0 /\ Top = 1
              /\ ~Unresolved(1)

\* CALL G of a generated program failed after the steps before it ran
C15_CallOfNobodyFailed ==
    /\ Unresolved(1) /\ hist[1].ins.name = "G"
    /\ status = "err" /\ err_arg = Some("G")
    /\ Len(hist) >= 2 /\ hist[2].res = "ok"
    /\ Len(frame_stack) = 1 /\ ip = hist[1].at

\* The lines of the program text that define the label n: the indices,
\* from 0, of the lines that start with the name n and a colon
LabelLines(n) ==
    {Cardinality({j \in 1..(i - 1) : program[j] = TNewline}) :
        i \in {i \in 1..(Len(program) - 1) :
                  /\ program[i] = TName(n)
                  /\ program[i + 1] = TColon
                  /\ i = 1 \/ program[i - 1] = TNewline}}

\* C16: parsing succeeds only if the text defines the label MAIN; the
\* empty text and a text that defines only F are refused with "Could not
\* find the entry point(MAIN)." and nothing is ever run; the Call("MAIN")
\* at index 0 of every machine returns Ok and enters MAIN.
C16_EntryPointMandatory ==
    /\ status # "load_err"
           => /\ LabelLines("MAIN") # {}
              /\ ENTRY_POINT \in DOMAIN fn_table
              /\ instructions[1] = Call(ENTRY_POINT)
    /\ program \in {<< >>, NoMain}
           => /\ status = "load_err"
              /\ err = "Could not find the entry point(MAIN)."
              /\ runs = 0 /\ hist = << >> /\ instructions = << >>
    /\ (Len(hist) >= 1 /\ hist[1].at = 0)
           => /\ Ran(1, "Call") /\ hist[1].ins.name = ENTRY_POINT
              /\ ip = fn_table[ENTRY_POINT]
              /\ Len(frame_stack) = hist[1].depth0 + 1

\* The text F: RETURN was refused for its missing MAIN
C16_NoMainRefused ==
    /\ program = NoMain
    /\ LabelLines("F") = {0} /\ LabelLines("MAIN") = {}
    /\ status = "load_err"
    /\ err = "Could not find the entry point(MAIN)."

\* The names the program text holds
Names == {program[i].name : i \in {i \in 1..Len(program) :
                                      program[i].kind = "Name"}}

\* C17: a text that defines a label twice is refused by the parser, with
\* "Function n is already defined." for the n it meets again; in the
\* bytecode of a successful parse every entry of the function table
\* is the one line that defines its name (ptr is that line's index + 2),
\* and every defined label has its entry.
C17_UniqueFunctionNames ==
    /\ (\E n \in Names : Cardinality(LabelLines(n)) >= 2)
           => status = "load_err"
    /\ (status = "load_err" /\ err = "Function {} is already defined.")
           => /\ IsSome(err_arg)
              /\ Cardinality(LabelLines(err_arg[1])) >= 2
    /\ (\E setup \in Setups, n \in {"F", "MAIN"} :
            program = Generate(setup, Label(n)))
           => /\ status = "load_err"
              /\ err = "Function {} is already defined."
    /\ status # "load_err"
           => /\ \A n \in DOMAIN fn_table :
                     \E l \in 0..Len(program) :
                         LabelLines(n) = {l} /\ fn_table[n] = l + 2
              /\ \A n \in Names : LabelLines(n) # {} => n \in DOMAIN fn_table

\* A second F: in the body of MAIN was refused
C17_SecondDefinitionRefused ==
    /\ program = Generate(<< >>, Label("F"))
    /\ LabelLines("F") = {0, 4}
    /\ status = "load_err"
    /\ err = "Function {} is already defined." /\ err_arg = Some("F")

\* C18: Halt(code), at any frame depth, returns Ok and sets halt to
\* Some(code), and run returns Ok: whenever halt is set, the step taken
\* last is the Halt whose operand it holds, so no instruction is executed
\* after it.  run on a machine whose halt is set returns the error
\* "Program is already ended." and executes nothing.
C18_HaltEndsTheRun ==
    /\ Did(1, "Halt")
           => /\ hist[1].res = "ok"
              /\ halt = Some(hist[1].ins.num)
              /\ sp = hist[1].sp0
              /\ frame_stack = hist[1].frames0
    /\ IsSome(halt)
           => /\ Did(1, "Halt") /\ halt = Some(hist[1].ins.num)
              /\ status \in {"ok", "err"}
              /\ status = "err" => (runs >= 2 /\ err = "Program is already ended.")
    /\ status = "ok" => IsSome(halt)

\* The Halt 3 of a called function ended the run with the frames of MAIN
\* and of the function in place, and a second run was refused
C18_HaltedInCallee ==
    /\ program = HaltInCallee
    /\ Did(1, "Halt") /\ hist[1].depth0 = 2 /\ Len(frame_stack) = 2
    /\ halt = Some(3) /\ sp = 0 /\ Top = 1
    /\ runs = 2 /\ status = "err" /\ err = "Program is already ended."

\* C19 as the specification states it: whenever run has returned an
\* error halt is unset, and whenever halt holds an exit code run has not
\* reported an error.
C19_HaltedXorAborted ==
    /\ status = "err" => halt = None
    /\ IsSome(halt) => status # "err"

\* C19, amended: a run that executes instructions ends halted or with an
\* error, never both: a step that did not return Ok leaves halt unset,
\* and when run returns an error other than "Program is already ended."
\* halt is unset.  The one error a machine with halt set reports is that
\* refusal of a further run, which leaves halt as the Halt set it.
C19_HaltedXorAbortedPerRun ==
    /\ (Len(hist) >= 1 /\ hist[1].res # "ok") => halt = None
    /\ (status = "err" /\ err # "Program is already ended.") => halt = None
    /\ status \in {"panic", "ub", "load_err"} => halt = None
    /\ (status = "err" /\ err = "Program is already ended.")
           => /\ IsSome(halt) /\ runs >= 2
              /\ Ran(1, "Halt") /\ halt = Some(hist[1].ins.num)

\* A run of the halted machine of test_load was refused, its exit code
\* still set
C19_RefusedWhileHalted ==
    /\ program = TestLoad
    /\ status = "err" /\ err = "Program is already ended."
    /\ halt = Some(0) /\ runs = 2

\* The line PRINT writes for 120
Line120 == << 62, 62, 62, 62, 62, 32, 49, 50, 48 >>

\* C20: the factorial example of the crate documentation, as given there,
\* parses, and its run prints the one line ">>>>> 120" and ends with
\* halt = Some(0).
C20_DocExamplePrints120 ==
    program = DocFactorial
        => /\ status # "load_err"
           /\ status \in {"running", "ok"} => out \in {<< >>, << Line120 >>}
           /\ status \notin {"loaded", "running"}
                  => status = "ok" /\ halt = Some(0) /\ out = << Line120 >>

\* The example was refused by the parser at its line PRINT
C20_DocExampleRefused ==
    /\ program = DocFactorial
    /\ status = "load_err" /\ err = "':' should come after a label"
    /\ out = << >> /\ halt = None

\* With CALL PRINT for that line the example does what C20 says
C20_WithCallPrints120 ==
    program = FactorialCallingPrint
        => /\ status # "load_err"
           /\ status \in {"running", "ok"} => out \in {<< >>, << Line120 >>}
           /\ status \notin {"loaded", "running"}
                  => /\ halt = Some(0) /\ out = << Line120 >>
                     /\ status \in {"ok", "err"}
                     /\ status = "err" => err = "Program is already ended."

\* ... and its run ends
C20_WithCallHalted ==
    /\ program = FactorialCallingPrint
    /\ status = "ok" /\ halt = Some(0) /\ out = << Line120 >>

\* What RetValue with a frame and a value does apart from ip: the top
\* frame goes, fp is one less, sp and the top cell are as before
ValueReturned ==
    /\ hist[1].res = "ok"
    /\ frame_stack = PopFrame(hist[1].frames0)
    /\ fp = hist[1].fp0 - 1
    /\ sp = hist[1].sp0
    /\ Top = hist[1].rhs0

\* C21: RetValue executed with at least one frame and a non-empty operand
\* stack removes the top frame, continues at that frame's ret_addr,
\* decrements fp and leaves sp and the top value as they were, so that the
\* caller finds the callee's result on top of the stack.
C21_ReturnValueTransfer ==
    (Did(1, "RetValue") /\ hist[1].depth0 >= 1 /\ hist[1].sp0 >= 0)
        => ValueReturned /\ ip = hist[1].ret0

\* C21, where it fails: a RetValue located at the return address of the
\* frame it removes hands the value over, and the instruction after it is
\* the next one
C21_ReturnValueAtReturnAddress ==
    /\ Did(1, "RetValue") /\ hist[1].depth0 = 2 /\ hist[1].rhs0 = 42
    /\ hist[1].at = hist[1].ret0
    /\ ValueReturned
    /\ ip = hist[1].ret0 + 1

\* Everywhere else C21 is what RetValue does
C21_TransferElsewhere ==
    (Did(1, "RetValue") /\ hist[1].depth0 >= 1 /\ hist[1].sp0 >= 0)
        => /\ ValueReturned
           /\ hist[1].at # hist[1].ret0 => ip = hist[1].ret0

\* F's 42 is on top of the stack when MAIN halts
C21_CallerFindsTheValue ==
    /\ Ran(3, "RetValue") /\ Ran(2, "Nop") /\ Ran(1, "Halt")
    /\ hist[3].depth0 = 2 /\ hist[3].rhs0 = 42
    /\ halt = Some(7) /\ sp = hist[3].sp0 /\ Top = 42

\* The step taken last was a Call of READ_FILE_NEXT or TRAVERSE_DIR_NEXT
\* with an id to pop
AskedForObject ==
    /\ Did(1, "Call")
    /\ hist[1].ins.name \in {"READ_FILE_NEXT", "TRAVERSE_DIR_NEXT"}
    /\ hist[1].sp0 >= 0 /\ hist[1].depth0 >= 1

\* The registry of the top frame before the step taken last
Registry0 == LastFrame(hist[1].frames0).dynamic_objects

\* C22: the objects of a frame go with it: a Ret or RetValue leaves the
\* frames below exactly as they were, the removed frame's objects in none
\* of them; an id is looked up in the top frame alone, and one that is not
\* there is the error "fatal: cannot find the dynamic object", whatever the
\* frames below hold; a called function starts with no objects and the
\* counter 0; the ids a frame holds are those below its counter, and no
\* step touches the objects of a frame below the top one.
C22_ObjectsDieWithFrame ==
    /\ \A k \in 1..Len(frame_stack) :
           DOMAIN frame_stack[k].dynamic_objects
               = 0..(frame_stack[k].dyn_obj_index - 1)
    /\ Len(hist) >= 1 =>
       /\ (Did(1, "Ret") \/ Did(1, "RetValue")) /\ hist[1].depth0 >= 1
              => frame_stack = PopFrame(hist[1].frames0)
       /\ \A k \in 1..Len(frame_stack) :
              k < hist[1].depth0
                  => frame_stack[k].dynamic_objects
                         = hist[1].frames0[k].dynamic_objects
       /\ (Ran(1, "Call") /\ hist[1].ins.name \notin BuiltinFns)
              => /\ DOMAIN LastFrame(frame_stack).dynamic_objects = {}
                 /\ LastFrame(frame_stack).dyn_obj_index = 0
       /\ (AskedForObject /\ hist[1].rhs0 \notin DOMAIN Registry0)
              => /\ hist[1].res = "err"
                 /\ hist[1].msg = "fatal: cannot find the dynamic object"
       /\ (AskedForObject /\ hist[1].res = "ok")
              => hist[1].rhs0 \in DOMAIN Registry0

\* G opened a file and returned; the id it left on the stack finds no
\* object in MAIN
C22_IdOutlivedItsObject ==
    /\ Ran(3, "Call") /\ hist[3].ins.name = "READ_FILE" /\ hist[3].depth0 = 2
    /\ Ran(2, "Ret")
    /\ AskedForObject /\ hist[1].depth0 = 1 /\ hist[1].rhs0 = 0
    /\ 0 \in DOMAIN LastFrame(hist[2].frames0).dynamic_objects
    /\ hist[1].res = "err"
    /\ hist[1].msg = "fatal: cannot find the dynamic object"

\* The callee asked for the id 0 that the caller's frame holds
C22_CallersObjectNotSeen ==
    /\ AskedForObject /\ hist[1].depth0 = 2 /\ hist[1].rhs0 = 0
    /\ 0 \in DOMAIN hist[1].frames0[1].dynamic_objects
    /\ hist[1].res = "err"

\* The packed string whose length cell is cell top of the stack st: the
\* bytes ins_pop_str would read for it
StrBelow(st, top) ==
    IF Cell(st, top) <= 0 THEN << >>
    ELSE ReadBytes(st, top - (Cell(st, top) \div 4 + 1), Cell(st, top))

\* The step taken last was a Call of READ_FILE_NEXT with the id of a line
\* iterator of the top frame on top of the stack
AskedForLine ==
    /\ AskedForObject /\ hist[1].ins.name = "READ_FILE_NEXT"
    /\ hist[1].rhs0 \in DOMAIN Registry0
    /\ Registry0[hist[1].rhs0].kind = "Lines"
\* What that iterator had still to yield before the step, and has after it
Lines0 == Registry0[hist[1].rhs0].lines
Lines1 == LastFrame(frame_stack).dynamic_objects[hist[1].rhs0].lines

\* C23: READ_FILE registers an iterator over the lines of the file, first
\* to last; READ_FILE_NEXT with its id on top, in the same frame, pops the
\* id and, while lines are left, pushes the first of them as a packed
\* string and then 1, the iterator being one line further; when none is
\* left it pushes 0 alone, every time; the iterator stays registered under
\* its id.
C23_LineIteratorProtocol ==
    /\ (Ran(1, "Call") /\ hist[1].ins.name = "READ_FILE")
           => /\ Top \in DOMAIN LastFrame(frame_stack).dynamic_objects
              /\ LastFrame(frame_stack).dynamic_objects[Top]
                     = LinesObj(FileLines)
    /\ AskedForLine
           => /\ hist[1].res = "ok"
              /\ DOMAIN LastFrame(frame_stack).dynamic_objects
                     = DOMAIN Registry0
              /\ \E k \in 0..Len(FileLines) :
                     Lines0 = SubSeq(FileLines, k + 1, Len(FileLines))
              /\ Lines0 # << >>
                     => /\ Top = 1
                        /\ Cell(stack, sp - 1) = Len(Head(Lines0))
                        /\ StrBelow(stack, sp - 1) = Head(Lines0)
                        /\ sp = hist[1].sp0 + Len(Head(Lines0)) \div 4 + 2
                        /\ Lines1 = Tail(Lines0)
              /\ Lines0 = << >>
                     => /\ Top = 0 /\ sp = hist[1].sp0
                        /\ Lines1 = << >>

\* The file's two lines were delivered in order, each with its 1, and the
\* third and the fourth call pushed 0
C23_TwoLinesThenZeros ==
    /\ AskedForLine /\ Lines0 = << >> /\ Did(3, "Call")
    /\ hist[3].ins.name = "READ_FILE_NEXT"
    /\ sp = 9 /\ Top = 0 /\ Cell(stack, 8) = 0
    /\ Cell(stack, 7) = 1 /\ StrBelow(stack, 6) = FileLines[2]
    /\ Cell(stack, 4) = 1 /\ StrBelow(stack, 3) = FileLines[1]

\* Before the step taken last the stack held two strings as ins_push_str
\* lays them out (L bytes of data in L / 4 + 1 cells, then the length
\* cell): Rhs on top, Lhs beneath it
RhsLen == Cell(hist[1].stack0, hist[1].sp0)
LhsTop == hist[1].sp0 - (RhsLen \div 4 + 2)
LhsLen == Cell(hist[1].stack0, LhsTop)
LhsBase == LhsTop - (LhsLen \div 4 + 2)
TwoPacked ==
    /\ Len(hist) >= 1 /\ hist[1].sp0 >= 1
    /\ RhsLen >= 0 /\ LhsTop >= 1
    /\ LhsLen >= 0 /\ LhsBase >= -1
Rhs == StrBelow(hist[1].stack0, hist[1].sp0)
Lhs == StrBelow(hist[1].stack0, LhsTop)

\* C24: CmpStr with two packed strings on the stack returns Ok, removes
\* every cell the two took and pushes one cell: 0 if lhs = rhs, 1 if
\* lhs > rhs, -1 if lhs < rhs, by bytes, lhs being the string beneath; so
\* PushStr(a); PushStr(b); CmpStr from the empty stack ends with sp = 0.
C24_CmpStrByBytes ==
    /\ (Did(1, "CmpStr") /\ TwoPacked)
           => /\ hist[1].res = "ok"
              /\ sp = LhsBase + 1
              /\ Top = StrOrd(Lhs, Rhs)
    /\ (Ran(3, "PushStr") /\ Ran(2, "PushStr") /\ Did(1, "CmpStr")
            /\ hist[3].sp0 = -1)
           => /\ hist[1].res = "ok" /\ sp = 0
              /\ Top = StrOrd(hist[3].ins.str, hist[2].ins.str)

\* C24, where it fails: the string beneath is empty (an empty line of the
\* file), and CmpStr leaves its data cell on the stack under the result
C24_EmptyStringLeavesACell ==
    /\ Ran(1, "CmpStr") /\ TwoPacked
    /\ Ran(2, "PushStr") /\ Rhs = Str_abcd
    /\ LhsLen = 0
    /\ Top = -1
    /\ sp = LhsBase + 2

\* With two strings that are not empty C24 is what CmpStr does, and so
\* with every two literals
C24_CmpStrOfNonEmpty ==
    /\ (Did(1, "CmpStr") /\ TwoPacked /\ RhsLen > 0 /\ LhsLen > 0)
           => /\ hist[1].res = "ok"
              /\ sp = LhsBase + 1
              /\ Top = StrOrd(Lhs, Rhs)
    /\ (Ran(3, "PushStr") /\ Ran(2, "PushStr") /\ Did(1, "CmpStr")
            /\ hist[3].sp0 = -1)
           => /\ hist[1].res = "ok" /\ sp = 0
              /\ Top = StrOrd(hist[3].ins.str, hist[2].ins.str)

\* 'abcd' was found less than 'abcde'
C24_LiteralsCompared ==
    /\ Ran(3, "PushStr") /\ Ran(2, "PushStr") /\ Ran(1, "CmpStr")
    /\ hist[3].ins.str = Str_abcd /\ hist[2].ins.str = Str_abcde
    /\ hist[3].sp0 = -1 /\ sp = 0 /\ Top = -1

(***************************************************************************)
(* C25: string literals.                                                   *)
(***************************************************************************)
\* The last call of next_token: where it stood once the blanks were
\* skipped, and the text after the byte it stood on
LexStart == trim([lexer EXCEPT !.cursor = lexed.cursor0]).cursor
MetQuote ==
    /\ lexed.res # "new"
    /\ LexStart < Len(lexer.program)
    /\ lexer.program[LexStart + 1] = 39
AfterQuote == SubSeq(lexer.program, LexStart + 2, Len(lexer.program))

\* The place in text of its first quote or newline, 0 if it has none
FirstStop(text) ==
    IF \E i \in 1..Len(text) : text[i] \in {39, 10}
    THEN CHOOSE i \in 1..Len(text) :
             /\ text[i] \in {39, 10}
             /\ \A j \in 1..(i - 1) : text[j] \notin {39, 10}
    ELSE 0

\* C25: a call of next_token that meets a quote returns the literal made
\* of the text between that quote and the next quote on the same line, the
\* empty text included, and fails if a newline or the end of the input
\* comes before a closing quote
C25_LiteralIsTextBetweenQuotes ==
    MetQuote =>
        LET stop == FirstStop(AfterQuote) IN
        IF stop > 0 /\ AfterQuote[stop] = 39
        THEN /\ lexed.res = "ok"
             /\ lexed.val = Some(TStringLiteral(SubSeq(AfterQuote, 1,
                                                       stop - 1)))
        ELSE lexed.res = "err"

\* '' followed by a newline: next_token returned an error, not the empty
\* literal
C25_EmptyLiteralRefused ==
    /\ MetQuote
    /\ Len(AfterQuote) >= 2 /\ AfterQuote[1] = 39 /\ AfterQuote[2] = 10
    /\ lexed.res = "err"
    /\ lexed.msg = "String literal is not finished properly."

\* A newline right after the opening quote became part of a literal
C25_NewlineInsideLiteral ==
    /\ MetQuote
    /\ AfterQuote # << >> /\ AfterQuote[1] = 10
    /\ lexed.res = "ok"
    /\ lexed.val[1].kind = "StringLiteral"
    /\ lexed.val[1].str[1] = 10

\* C25, where the byte after the opening quote is neither a quote nor a
\* newline: the literal is the text between the quotes, and a newline or
\* the end of the input before the closing quote is an error
C25_LiteralOfOrdinaryStart ==
    (MetQuote /\ (AfterQuote # << >> => AfterQuote[1] \notin {39, 10}))
        => C25_LiteralIsTextBetweenQuotes

\* No literal the lexer returns is empty
C25_NoEmptyLiteral ==
    (lexed.res = "ok" /\ lexed.val # None
        /\ lexed.val[1].kind = "StringLiteral")
        => lexed.val[1].str # << >>

(***************************************************************************)
(* C26: one slot per source line.                                          *)
(***************************************************************************)
RECURSIVE SourceLines(_)
\* The lines of a text: what stands between its newlines (a newline ends
\* a line, so a text that ends with one has no line after it)
SourceLines(toks) ==
    IF toks = << >> THEN << >>
    ELSE IF \E i \in 1..Len(toks) : toks[i] = TNewline
    THEN LET n == CHOOSE i \in 1..Len(toks) :
                      /\ toks[i] = TNewline
                      /\ \A j \in 1..(i - 1) : toks[j] # TNewline
         IN  << SubSeq(toks, 1, n - 1) >>
                 \o SourceLines(SubSeq(toks, n + 1, Len(toks)))
    ELSE << toks >>

\* The slot of a line of a text that parses
SlotOf(line) ==
    IF line = << >> \/ line[1].kind = "Name" THEN Nop
    ELSE IF Len(line) = 1 THEN Plain(line[1].op)
    ELSE Instruction(line[1].op, line[2].name, line[2].str, line[2].num)

WellShaped(line) ==
    \/ line = << >>
    \/ Len(line) = 2 /\ line[1].kind = "Name" /\ line[2] = TColon
    \/ /\ line[1].kind = "Instruction"
       /\ IF line[1].op \in NumberOps
          THEN Len(line) = 2 /\ line[2].kind = "Number"
          ELSE IF line[1].op \in StringOps
          THEN Len(line) = 2 /\ line[2].kind = "StringLiteral"
          ELSE IF line[1].op = "Call"
          THEN Len(line) = 2 /\ line[2].kind = "Name"
          ELSE Len(line) = 1

IllShapedLines ==
    {k \in 1..Len(SourceLines(program)) :
        ~WellShaped(SourceLines(program)[k])}

ShapeErrors == {"Expected operand", "Expected newline",
                "Expected instruction or label",
                "':' should come after a label"}

PushedLen == Len(hist[1].ins.str)
PushedLayout ==
    /\ ReadBytes(stack, hist[1].sp0 + 1, PushedLen) = hist[1].ins.str
    /\ Top = PushedLen

\* C28: PushStr(s) from sp = p lays the bytes of s from the first byte of
\* cell p + 1, leaves their number L in the new top cell and takes
\* ceil(L / 4) + 1 cells in all, whatever L is
C28_PushStrFootprint ==
    Ran(1, "PushStr") =>
        /\ PushedLayout
        /\ sp = hist[1].sp0 + (PushedLen + 3) \div 4 + 1

\* A string of four bytes was pushed and took three cells: the cell under
\* the length holds none of its bytes
C28_FourBytesTakeThreeCells ==
    /\ Ran(1, "PushStr")
    /\ PushedLen = 4
    /\ PushedLayout
    /\ sp = hist[1].sp0 + 3

\* C28 with the cells the code takes: L / 4 + 2 of them, which is
\* ceil(L / 4) + 1 unless 4 divides L
C28_PushStrTakesQuotientPlusTwo ==
    Ran(1, "PushStr") =>
        /\ PushedLayout
        /\ sp = hist[1].sp0 + PushedLen \div 4 + 2
        /\ PushedLen % 4 # 0 =>
               sp = hist[1].sp0 + (PushedLen + 3) \div 4 + 1

(***************************************************************************)
(* C29: what PopStr checks.                                                *)
(***************************************************************************)
\* C29: PopStr pops the top cell as the length L.  With L < 0 it fails;
\* with L = 0 it gives the empty string and only that cell is gone; with
\* L > 0 it needs L / 4 + 1 cells under the length cell, fails without
\* them and else removes them and gives the L bytes they start with, all
\* of them read from cells that were on the stack.  It never leaves sp
\* under -1.
C29_PopStrValidated ==
    Did(1, "PopStr") =>
        LET L == hist[1].rhs0
            p == hist[1].sp0
            mem_len == L \div 4 + 1
        IN  /\ hist[1].sp1 >= -1
            /\ hist[1].res \in {"ok", "err", "panic"}
            /\ p \in 0..(STACK_LEN - 1) =>
                /\ L < 0 => /\ hist[1].res = "err"
                            /\ hist[1].msg = "fatal: negative strlen."
                /\ L = 0 => /\ hist[1].res = "ok"
                            /\ popped = << >>
                            /\ sp = p - 1
                /\ (L > 0 /\ p < mem_len) =>
                       /\ hist[1].res = "err"
                       /\ hist[1].msg = "fatal: not enough stack."
                /\ (L > 0 /\ p >= mem_len) =>
                       /\ hist[1].res = "ok"
                       /\ sp = p - 1 - mem_len
                       /\ sp + 1 + (L - 1) \div 4 <= p - 1
                       /\ popped = Latin1String(
                              ReadBytes(hist[1].stack0, sp + 1, L))

\* PopStr found the length 1 alone on the stack and failed: the one cell
\* the string needs is not there
C29_ShortStackRefused ==
    /\ Did(1, "PopStr")
    /\ hist[1].sp0 = 0 /\ hist[1].rhs0 = 1
    /\ hist[1].msg = "fatal: not enough stack."
    /\ sp = -1 /\ status = "err"

\* PopStr found the length 0 and removed that cell only
C29_EmptyStringPopped ==
    /\ Ran(1, "PopStr")
    /\ hist[1].rhs0 = 0
    /\ popped = << >> /\ sp = hist[1].sp0 - 1

(***************************************************************************)
(* C30: what READ_FILE leaves on the stack.                                *)
(***************************************************************************)
\* The step taken last was a Call of the built-in READ_FILE that succeeded;
\* the packed string it found on top of the stack
ReadFileRan ==
    /\ Ran(1, "Call") /\ hist[1].ins.name = "READ_FILE"
    /\ Len(frame_stack) = hist[1].depth0
Path0 == StrBelow(hist[1].stack0, hist[1].sp0)

\* After the step the top cell is the id the top frame gave the line
\* iterator it registered, and under it lies the packed string path, one
\* cell more on the stack than before the step
IdAbove(path) ==
    /\ Top = LastFrame(hist[1].frames0).dyn_obj_index
    /\ Top \in DOMAIN LastFrame(frame_stack).dynamic_objects
    /\ LastFrame(frame_stack).dynamic_objects[Top] = LinesObj(FileLines)
    /\ StrBelow(stack, sp - 1) = path

C30_PoppedPathUnderId ==
    /\ ReadFileRan
    /\ Path0 = Str_eacute
    /\ IdAbove(<< 195, 131, 194, 169 >>)
    /\ sp = hist[1].sp0 + 2
C31_JmpZeroWentOn ==
    Ran(1, "Jmp") /\ hist[1].ins.num = 0 /\ ip = hist[1].at + 1

(***************************************************************************)
(* C32: the range of the stack pointer.                                    *)
(***************************************************************************)
\* C32: after every instruction that completes without error sp is one of
\* -1 .. 999, whatever the program and the instructions before it; the
\* machine starts with sp = -1, the empty stack, and with sp = -1 an
\* instruction that pops finds nothing and fails
C32_StackPointerInRange ==
    /\ hist = << >> => sp = -1
    /\ status \notin {"panic", "ub"} => sp \in -1..(STACK_LEN - 1)
    /\ Len(hist) >= 1 =>
           /\ hist[1].res = "ok" =>
                  /\ hist[1].sp1 \in -1..(STACK_LEN - 1)
                  /\ sp = hist[1].sp1
           /\ (hist[1].ins.op \in Poppers /\ hist[1].sp0 = -1)
                  => hist[1].res = "err"

\* A PushStr completed with the length of its string in the last cell
C32_PushStrFilledLastCell ==
    /\ Ran(1, "PushStr")
    /\ sp = STACK_LEN - 1
    /\ Top = PushedLen

\* A PopStr emptied the stack
C32_PopStrEmptiedStack ==
    /\ Ran(1, "PopStr")
    /\ hist[1].sp0 >= 2
    /\ sp = -1

(***************************************************************************)
(* C33: the frames.                                                        *)
(***************************************************************************)
\* C33: as long as no instruction has failed (the first run, up to and
\* with its first failure if it has one), fp is the number of frames less
\* 1 before every instruction, an instruction at index 2 or beyond is
\* executed with a frame on the frame stack (without one only the Call
\* and the Halt of the prologue are), and so WriteVar, ReadVar and the
\* built-ins that keep or look up an object find their frame and no Ret or
\* RetValue finds the frame stack empty.  While nothing has failed fp is
\* the number of frames less 1 after the instruction too.
C33_FrameInvariants ==
    runs <= 1 =>
        /\ status \in {"loaded", "running", "ok"}
               => fp = Len(frame_stack) - 1
        /\ (status = "running" /\ ip >= 2) => frame_stack # << >>
        /\ Len(hist) >= 1 =>
               /\ hist[1].fp0 = hist[1].depth0 - 1
               /\ hist[1].at >= 2 => hist[1].depth0 >= 1
               /\ hist[1].depth0 = 0 =>
                      \/ hist[1].at = 0 /\ hist[1].ins = Call("MAIN")
                      \/ hist[1].at = 1 /\ hist[1].ins = Halt(0)
               /\ hist[1].ins.op \in {"WriteVar", "ReadVar", "Ret",
                                      "RetValue"}
                      => hist[1].depth0 >= 1
               /\ hist[1].msg # "Fatal: unexpected return"

\* MAIN returned, and the Halt of the prologue was executed with no frame
\* on the frame stack
C33_PrologueHaltWithoutFrame ==
    /\ runs = 1 /\ status = "ok"
    /\ Ran(2, "Ret") /\ hist[2].depth0 = 1
    /\ Ran(1, "Halt") /\ hist[1].at = 1 /\ hist[1].depth0 = 0
    /\ fp = -1 /\ frame_stack = << >>

\* A function called from MAIN wrote a variable in its own frame
C33_CalleeFoundItsFrame ==
    /\ runs = 1
    /\ Ran(1, "WriteVar") /\ hist[1].depth0 = 2 /\ hist[1].fp0 = 1
    /\ fp = 1

(***************************************************************************)
(* C34: the ids of the objects of a frame.                                 *)
(***************************************************************************)
\* The iterator now is the iterator old, advanced or not
SameObject(old, now) ==
    /\ now.kind = old.kind
    /\ \E k \in 0..Len(old.lines) :
           now.lines = SubSeq(old.lines, k + 1, Len(old.lines))
    /\ \E k \in 0..Len(old.entries) :
           now.entries = SubSeq(old.entries, k + 1, Len(old.entries))

\* The step taken last was a Call of READ_FILE or TRAVERSE_DIR that
\* succeeded
Registered ==
    /\ Ran(1, "Call") /\ hist[1].ins.name \in {"READ_FILE", "TRAVERSE_DIR"}
    /\ Len(frame_stack) = hist[1].depth0

\* C34: a frame gives its objects the ids 0, 1, 2, ... in the order they
\* are registered: the n-th gets n - 1, which is pushed on the operand
\* stack.  Over any step the counter of a frame that stays does not
\* decrease and each id it holds goes on naming the same object; a lookup
\* pops the id and leaves the object in the frame.
C34_IdsInRegistrationOrder ==
    Len(hist) >= 1 =>
        /\ \A k \in 1..Len(frame_stack) :
               k <= hist[1].depth0 =>
                   LET old == hist[1].frames0[k]
                       now == frame_stack[k]
                   IN  /\ now.dyn_obj_index >= old.dyn_obj_index
                       /\ \A id \in DOMAIN old.dynamic_objects :
                              /\ id \in DOMAIN now.dynamic_objects
                              /\ SameObject(old.dynamic_objects[id],
                                            now.dynamic_objects[id])
        /\ Registered =>
               LET n == LastFrame(hist[1].frames0).dyn_obj_index
                   now == LastFrame(frame_stack)
               IN  /\ n = Cardinality(DOMAIN Registry0)
                   /\ Top = n
                   /\ now.dyn_obj_index = n + 1
                   /\ DOMAIN now.dynamic_objects = DOMAIN Registry0 \cup {n}
                   /\ \A id \in DOMAIN Registry0 :
                          now.dynamic_objects[id] = Registry0[id]
        /\ (AskedForObject /\ hist[1].res = "ok") =>
               /\ hist[1].rhs0 \in DOMAIN LastFrame(frame_stack).dynamic_objects
               /\ DOMAIN LastFrame(frame_stack).dynamic_objects
                      = DOMAIN Registry0
               /\ LastFrame(frame_stack).dyn_obj_index
                      = LastFrame(hist[1].frames0).dyn_obj_index

\* The third iterator registered in MAIN's frame got the id 2, under the
\* directory iterator 1 and the line iterator 0
C34_ThirdObjectGotIdTwo ==
    /\ Registered /\ hist[1].ins.name = "READ_FILE"
    /\ Top = 2
    /\ LastFrame(frame_stack).dyn_obj_index = 3
    /\ DOMAIN LastFrame(frame_stack).dynamic_objects = {0, 1, 2}
    /\ LastFrame(frame_stack).dynamic_objects[1].kind = "ReadDir"

\* The iterator 0 was asked a second time and was still there
C34_LookedUpTwice ==
    /\ AskedForLine /\ hist[1].res = "ok"
    /\ hist[1].rhs0 = 0
    /\ DOMAIN Registry0 = {0, 1, 2}
    /\ Registry0[0].lines = Tail(FileLines)
    /\ 0 \in DOMAIN LastFrame(frame_stack).dynamic_objects

=============================================================================
